---------------------------- MODULE Spec2Model ----------------------------
(***************************************************************************)
(* Multiplayer session and synchronisation subsystem of Bubble:            *)
(*   NetworkManager   (src/src/network/NetworkManager.ts)                   *)
(*   validateMessage  (src/src/network/MessageTypes.ts)                     *)
(*   GameStateSync    (src/src/network/GameStateSync.ts)                    *)
(*   LobbyUI          (src/unnamed/part_001)                                *)
(*   MultiplayerGameManager, in its two versions:                           *)
(*     variant "predict": src/src/MultiplayerGameManager.ts                 *)
(*     variant "render" : src/unnamed/part_000                              *)
(* Each of the two peers runs one MultiplayerGameManager; PeerJS and the    *)
(* browser (keys, frames, timers, clock) are the environment.              *)
(***************************************************************************)
EXTENDS Integers, Sequences, FiniteSets, TLC

(***************************************************************************)
(* JavaScript values as they arrive from the channel.  Every value has the *)
(* same record shape so that values of different JS types can be compared. *)
(***************************************************************************)
JUndef == [t |-> "undefined", b |-> FALSE, n |-> 0, s |-> ""]

JNull == [t |-> "null", b |-> FALSE, n |-> 0, s |-> ""]

JBool(x) == [t |-> "boolean", b |-> x, n |-> 0, s |-> ""]

JNum(x) == [t |-> "number", b |-> FALSE, n |-> x, s |-> ""]

JStr(x) == [t |-> "string", b |-> FALSE, n |-> 0, s |-> x]

\* JS `typeof v`
TypeOf(v) == IF v.t \in {"null", "object"} THEN "object" ELSE v.t

\* JS truthiness of v (the `!x` and `x && ...` tests)
Truthy(v) ==
  CASE v.t = "undefined" -> FALSE
    [] v.t = "null" -> FALSE
    [] v.t = "boolean" -> v.b
    [] v.t = "number" -> v.n # 0
    [] v.t = "string" -> v.s # ""
    [] OTHER -> TRUE

\* enum MessageType
MessageType ==
  {"INPUT", "STATE_UPDATE", "SYNC", "GAME_OVER", "PLAYER_READY", "START_GAME"}

NoState == [present |-> FALSE]

\* msg.data : a JS value that, when an object, has the properties left, right,
\* shoot (an InputState) and/or carries a GameState (state.present).
NoData == [v |-> JUndef, left |-> JUndef, right |-> JUndef, shoot |-> JUndef,
           state |-> NoState]

DataObj(l, r, sh, st) ==
  [v |-> [t |-> "object", b |-> FALSE, n |-> 0, s |-> ""],
   left |-> l, right |-> r, shoot |-> sh, state |-> st]

DataPrim(val) == [NoData EXCEPT !.v = val]

\* A raw payload handed to the 'data' handler: `v` is the payload itself when it
\* is not an object; an object payload has the six properties below (JUndef or
\* NoData when the property is absent).
RawObj(ty, ts, d, w, fs, pn) ==
  [v |-> [t |-> "object", b |-> FALSE, n |-> 0, s |-> ""],
   type |-> ty, timestamp |-> ts, data |-> d,
   won |-> w, finalScore |-> fs, playerName |-> pn]

RawPrim(val) ==
  [v |-> val, type |-> JUndef, timestamp |-> JUndef, data |-> NoData,
   won |-> JUndef, finalScore |-> JUndef, playerName |-> JUndef]

\* Reading a property of data: a TypeError when data is null or undefined,
\* undefined on any other primitive.
DataProp(d, name) ==
  IF d.v.t \in {"undefined", "null"} THEN [t |-> "throw", b |-> FALSE, n |-> 0, s |-> ""]
  ELSE IF d.v.t # "object" THEN JUndef
  ELSE CASE name = "left" -> d.left
         [] name = "right" -> d.right
         [] OTHER -> d.shoot

\* the INPUT case after its `msg.data &&` guard: the three typeof tests
ValidateInputUnguarded(msg) ==
  LET l == DataProp(msg.data, "left")
      r == DataProp(msg.data, "right")
      s == DataProp(msg.data, "shoot")
  IN IF "throw" \in {l.t, r.t, s.t} THEN "throw"
     ELSE IF l.t = "boolean" /\ r.t = "boolean" /\ s.t = "boolean"
          THEN "accept" ELSE "reject"

ValidateInput(msg) ==
  IF ~Truthy(msg.data.v) THEN "reject" ELSE ValidateInputUnguarded(msg)

ValidateByTypeLax(msg) ==
  CASE msg.type.s = "INPUT" -> ValidateInput(msg)
    [] msg.type.s = "STATE_UPDATE" ->
         IF Truthy(msg.data.v) /\ TypeOf(msg.data.v) = "object"
         THEN "accept" ELSE "reject"
    [] msg.type.s = "SYNC" -> "accept"
    [] msg.type.s = "GAME_OVER" -> "accept"
    [] msg.type.s = "PLAYER_READY" -> "accept"
    [] msg.type.s = "START_GAME" -> "accept"
    [] OTHER -> "reject"

\* the switch of validateMessage
ValidateByType(msg) ==
  CASE msg.type.s = "INPUT" -> ValidateInput(msg)
    [] msg.type.s = "STATE_UPDATE" ->
         IF Truthy(msg.data.v) /\ TypeOf(msg.data.v) = "object"
         THEN "accept" ELSE "reject"
    [] msg.type.s = "SYNC" -> "accept"
    [] msg.type.s = "GAME_OVER" ->
         IF TypeOf(msg.won) = "boolean" /\ TypeOf(msg.finalScore) = "number"
         THEN "accept" ELSE "reject"
    [] msg.type.s = "PLAYER_READY" ->
         IF TypeOf(msg.playerName) = "string" THEN "accept" ELSE "reject"
    [] msg.type.s = "START_GAME" -> "accept"
    [] OTHER -> "reject"

\* validateMessage(msg): "accept" (true), "reject" (a falsy result) or "throw"
validateMessage(msg) ==
  IF ~Truthy(msg.v) \/ TypeOf(msg.v) # "object" THEN "reject"
  ELSE IF ~Truthy(msg.type) \/ ~(msg.type.t = "string" /\ msg.type.s \in MessageType)
       THEN "reject"
  ELSE IF TypeOf(msg.timestamp) # "number" THEN "reject"
  ELSE ValidateByType(msg)


(***************************************************************************)
(* Bounds of the model and program constants                               *)
(***************************************************************************)
\* connection objects alive at once (an old one awaiting its close event and a
\* new one)
MaxConns == 2

\* messages in flight in one direction of one connection
MaxQueue == 2

\* setInterval timers running at once in one NetworkManager
MaxTimers == 2

\* transport faults (error events, lost connections) and payloads of a
\* non-conforming remote in one behaviour
MaxFaults == 1

\* Date.now(): the clock starts at StartTime and advances MaxTicks times by
\* ClockStep milliseconds
StartTime == 1000

ClockStep == 25

MaxTicks == 2

\* MultiplayerGameManager.syncInterval
syncInterval == 50

\* the length of a room code (generateRoomCode's loop, the join screen's limit)
CodeLen == 6

Peers == {"p1", "p2"}

ConnIds == 1..MaxConns

Variants == {"predict", "render"}

\* generateRoomCode's alphabet
chars ==
  << "A", "B", "C", "D", "E", "F", "G", "H", "I", "J", "K", "L", "M",
     "N", "O", "P", "Q", "R", "S", "T", "U", "V", "W", "X", "Y", "Z",
     "0", "1", "2", "3", "4", "5", "6", "7", "8", "9" >>

\* the values Math.floor(Math.random() * chars.length) takes in the model
\* (0-based indices into chars)
RandIdx == {2}

\* String.prototype.toUpperCase on the one-character keys of the model
ToUpperCase(ch) ==
  CASE ch = "c" -> "C"
    [] ch = "j" -> "J"
    [] ch = "r" -> "R"
    [] OTHER -> ch

\* String.prototype.toLowerCase on the keys of the model
ToLowerCase(ch) ==
  CASE ch = "C" -> "c"
    [] ch = "J" -> "j"
    [] ch = "R" -> "r"
    [] OTHER -> ch

\* e.key.length === 1 && /[A-Z0-9]/i.test(e.key)
IsCodeChar(key) ==
  \/ \E i \in 1..Len(chars) : chars[i] = key
  \/ key \in {"c", "j", "r"}

\* the keys the modelled user presses in the lobby (e.key values)
LobbyKeys == {"c", "j", "r", "Enter", "Backspace", "Escape"}

\* the game controls: the event.code of the local seat's left and shoot keys
GameKeys == {"Left"}

Keys == LobbyKeys \cup GameKeys

\* the room codes the modelled user types on the join screen
TypedCodes == { << "C", "C", "C", "C", "C", "C" >> }

IsPrefix(a, b) == Len(a) <= Len(b) /\ SubSeq(b, 1, Len(a)) = a


(***************************************************************************)
(* State                                                                   *)
(***************************************************************************)
VARIABLES
  variant,   \* which MultiplayerGameManager both peers run
  now,       \* Date.now()
  net,       \* per peer: the NetworkManager's fields and its running timers
  lobby,     \* per peer: the LobbyUI's fields
  orch,      \* per peer: the MultiplayerGameManager's fields
  conns,     \* the PeerJS data connections
  out,       \* the last step's calls of send() and payloads received, in order
  faults,    \* transport faults and foreign payloads so far
  payload,   \* the payload under validation (validateMessage on its own)
  verdict    \* its result

vars == << variant, now, net, lobby, orch, conns, out, faults, payload, verdict >>

\* The part of the state the handlers read and write, as one value.
St == [net |-> net, lobby |-> lobby, orch |-> orch, conns |-> conns, out |-> << >>]

\* a free slot of conns
NoConn ==
  [g |-> "none", h |-> "none", target |-> << >>,
   gs |-> "free", hs |-> "free", toHost |-> << >>, toGuest |-> << >>,
   lost |-> FALSE]

\* NetworkManager's fields after construction.  peer: "null", or the state of
\* the Peer object ("new", "open", "destroyed"); connection: 0 for null, a slot
\* of conns, or -1 for a DataConnection that is closed for good; peerId: the id
\* the Peer was constructed with (empty: none given, the server assigns one);
\* timers: the setInterval timers running.
NetInit ==
  [peer |-> "null", peerId |-> << >>, connection |-> 0, isHost |-> FALSE,
   roomCode |-> << >>,
   status |-> "disconnected", latency |-> 0, lastPingTime |-> 0,
   pingIntervalId |-> FALSE, timers |-> 0]

\* LobbyUI's fields after construction
LobbyInit ==
  [mode |-> "menu", roomCodeInput |-> << >>, isReady |-> FALSE,
   remoteReady |-> FALSE]

(***************************************************************************)
(* The simulation (GameManager) as the synchronisation code sees it        *)
(***************************************************************************)
NoArrow == [x |-> 0, y |-> 0, isActive |-> FALSE]

NewPlayer ==
  [x |-> 0, y |-> 0, score |-> 0, lives |-> 3, movement |-> "STATIONARY",
   tempMovement |-> "STATIONARY", arrow |-> NoArrow]

NoGame ==
  [alive |-> FALSE, players |-> << NewPlayer, NewPlayer >>, bubbleArray |-> << >>,
   score |-> 0, timeRemaining |-> 0, level |-> 1, currentLevel |-> 0,
   autoStart |-> FALSE, localPlayerIndex |-> -1, onInputChange |-> FALSE,
   keyState |-> [left |-> FALSE, right |-> FALSE, shoot |-> FALSE]]

\* new GameManager(canvas, 2, undefined, autoStart, localPlayerIndex).  level is
\* the field the simulation keeps and reads; GameManager declares no
\* currentLevel, the property GameStateSync reads and writes (0: not set)
NewGameManager(autoStart, localPlayerIndex) ==
  [alive |-> TRUE, players |-> << NewPlayer, NewPlayer >>, bubbleArray |-> << >>,
   score |-> 0, timeRemaining |-> 40000, level |-> 1, currentLevel |-> 0,
   autoStart |-> autoStart, localPlayerIndex |-> localPlayerIndex,
   onInputChange |-> FALSE,
   keyState |-> [left |-> FALSE, right |-> FALSE, shoot |-> FALSE]]

NoInput == [left |-> FALSE, right |-> FALSE, shoot |-> FALSE]

\* MultiplayerGameManager's fields after construction; syncLoops: the syncLoop
\* callbacks scheduled (variant "render")
OrchInit ==
  [inLobby |-> TRUE, isHost |-> FALSE, gameManager |-> NoGame,
   lastSyncTime |-> 0, remoteInput |-> NoInput, localInput |-> NoInput,
   syncLoops |-> 0]


(***************************************************************************)
(* GameStateSync                                                           *)
(***************************************************************************)
\* JS `a || d` on numbers
OrElse(a, d) == IF a = 0 THEN d ELSE a

\* serializePlayer
serializePlayer(player) ==
  [x |-> OrElse(player.x, 0), y |-> OrElse(player.y, 0),
   score |-> OrElse(player.score, 0), lives |-> OrElse(player.lives, 3)]

\* serializeBubbles
serializeBubbles(bubbles) ==
  [i \in 1..Len(bubbles) |->
     [x |-> OrElse(bubbles[i].x, 0), y |-> OrElse(bubbles[i].y, 0),
      radius |-> OrElse(bubbles[i].radius, 0),
      dx |-> OrElse(bubbles[i].dx, 0), dy |-> OrElse(bubbles[i].dy, 0)]]

RECURSIVE ActiveArrows(_, _)
\* the forEach of serializeArrows from seat i on: one entry per active arrow
ActiveArrows(players, i) ==
  IF i > Len(players) THEN << >>
  ELSE (IF players[i].arrow.isActive
        THEN << [x |-> OrElse(players[i].arrow.x, 0),
                 y |-> OrElse(players[i].arrow.y, 0), isActive |-> TRUE] >>
        ELSE << >>) \o ActiveArrows(players, i + 1)

\* serializeArrows
serializeArrows(gm) == ActiveArrows(gm.players, 1)

\* serializeGameState
serializeGameState(gm) ==
  [present |-> TRUE,
   player1 |-> serializePlayer(gm.players[1]),
   player2 |-> serializePlayer(gm.players[2]),
   bubbles |-> serializeBubbles(gm.bubbleArray),
   arrows |-> serializeArrows(gm),
   score |-> OrElse(gm.score, 0),
   timeRemaining |-> OrElse(gm.timeRemaining, 0),
   level |-> OrElse(gm.currentLevel, 1)]

\* applyPlayerState
applyPlayerState(player, state) ==
  [player EXCEPT !.x = state.x, !.y = state.y, !.score = state.score,
                 !.lives = state.lives]

\* applyBubbles that does not empty the collection first
applyBubblesAppend(gm, bubbles) ==
  [gm EXCEPT !.bubbleArray = @ \o
     [i \in 1..Len(bubbles) |->
        [x |-> bubbles[i].x, y |-> bubbles[i].y, radius |-> bubbles[i].radius,
         dx |-> bubbles[i].dx, dy |-> bubbles[i].dy]]]

\* applyBubbles: the collection is emptied and rebuilt from the snapshot
applyBubbles(gm, bubbles) ==
  [gm EXCEPT !.bubbleArray =
     [i \in 1..Len(bubbles) |->
        [x |-> bubbles[i].x, y |-> bubbles[i].y, radius |-> bubbles[i].radius,
         dx |-> bubbles[i].dx, dy |-> bubbles[i].dy]]]

\* applyArrows: every arrow is reset, then entry i of the list is written to
\* the player at index i
applyArrows(gm, arrows) ==
  [gm EXCEPT !.players =
     [i \in 1..Len(gm.players) |->
        IF i <= Len(arrows)
        THEN [gm.players[i] EXCEPT !.arrow =
                [x |-> arrows[i].x, y |-> arrows[i].y,
                 isActive |-> arrows[i].isActive]]
        ELSE [gm.players[i] EXCEPT !.arrow.isActive = FALSE]]]

\* applyGameState
applyGameState(gm, state) ==
  LET g1 == [gm EXCEPT !.players[1] = applyPlayerState(gm.players[1], state.player1),
                       !.players[2] = applyPlayerState(gm.players[2], state.player2)]
      g2 == applyBubbles(g1, state.bubbles)
      g3 == applyArrows(g2, state.arrows)
  IN [g3 EXCEPT !.score = state.score, !.timeRemaining = state.timeRemaining,
                !.currentLevel = state.level]


(***************************************************************************)
(* Messages the program constructs                                         *)
(***************************************************************************)
PlainMsg(type) == RawObj(JStr(type), JNum(now), NoData, JUndef, JUndef, JUndef)

PlayerReadyMsg(name) ==
  RawObj(JStr("PLAYER_READY"), JNum(now), NoData, JUndef, JUndef, JStr(name))

InputMsg(input) ==
  RawObj(JStr("INPUT"), JNum(now),
         DataObj(JBool(input.left), JBool(input.right), JBool(input.shoot), NoState),
         JUndef, JUndef, JUndef)

StateUpdateMsg(gameState) ==
  RawObj(JStr("STATE_UPDATE"), JNum(now),
         DataObj(JUndef, JUndef, JUndef, gameState), JUndef, JUndef, JUndef)

(***************************************************************************)
(* PeerJS data connections.  A connection has a guest side (the peer that  *)
(* called connect) and a host side; gs and hs are the sides' states:        *)
(* "pending" (not open yet), "open", "closed"; hs is "unbound" until the    *)
(* host's peer has emitted 'connection'.  lost: the transport underneath is *)
(* gone, the sides have not all been told yet.                             *)
(***************************************************************************)
\* the state of p's side of connection c
SideOf(s, c, p) ==
  IF s.conns[c].g = p THEN s.conns[c].gs
  ELSE IF s.conns[c].h = p THEN s.conns[c].hs
  ELSE "none"

\* this.connection && this.connection.open
ChannelOpen(s, p) ==
  /\ s.net[p].connection > 0
  /\ SideOf(s, s.net[p].connection, p) = "open"

\* a slot whose two sides are finished is free again; a manager still holding
\* the object holds a closed connection
Reap(s) ==
  LET dead(c) == /\ s.conns[c].gs = "closed"
                 /\ s.conns[c].hs \in {"closed", "unbound"}
  IN [s EXCEPT
        !.conns = [c \in ConnIds |-> IF dead(c) THEN NoConn ELSE s.conns[c]],
        !.net = [q \in Peers |->
                   IF s.net[q].connection > 0 /\ dead(s.net[q].connection)
                   THEN [s.net[q] EXCEPT !.connection = -1]
                   ELSE s.net[q]]]

\* DataConnection.close() called by p on connection c
CloseSide(s, c, p) ==
  IF c <= 0 \/ SideOf(s, c, p) \notin {"pending", "open"} THEN s
  ELSE IF s.conns[c].g = p
       THEN [s EXCEPT !.conns[c].gs = "closed", !.conns[c].toHost = << >>,
                      !.conns[c].toGuest = << >>]
       ELSE [s EXCEPT !.conns[c].hs = "closed", !.conns[c].toHost = << >>,
                      !.conns[c].toGuest = << >>]

RECURSIVE CloseAll(_, _, _)
\* Peer.destroy() closes every connection of the peer
CloseAll(s, cs, p) ==
  IF cs = {} THEN s
  ELSE LET c == CHOOSE x \in cs : TRUE
       IN CloseAll(CloseSide(s, c, p), cs \ {c}, p)

\* DataConnection.send(message) on p's side of c: the message travels to the
\* other side unless that side or the transport is gone
Transmit(s, c, p, m) ==
  IF s.conns[c].lost THEN s
  ELSE IF s.conns[c].g = p
       THEN (IF s.conns[c].hs \in {"pending", "open"}
             THEN [s EXCEPT !.conns[c].toHost = Append(@, m)] ELSE s)
       ELSE (IF s.conns[c].gs \in {"pending", "open"}
             THEN [s EXCEPT !.conns[c].toGuest = Append(@, m)] ELSE s)

(***************************************************************************)
(* NetworkManager                                                          *)
(***************************************************************************)
\* isConnected()
isConnected(s, p) == s.net[p].status = "connected" /\ ChannelOpen(s, p)

\* what `out` records of one call of send(): the message's type, whether it was
\* handed to the channel, and the manager's state at the call
SendRecord(s, p, m, sent) ==
  [kind |-> "send", from |-> p, type |-> m.type.s, sent |-> sent,
   status |-> s.net[p].status, open |-> ChannelOpen(s, p),
   isHost |-> s.net[p].isHost]

\* what `out` records of one payload handed to the 'data' handler of p: its
\* type tag and whether validation accepted it (sent)
DataRecord(s, p, data) ==
  [kind |-> "data", from |-> p,
   type |-> IF data.type.t = "string" THEN data.type.s ELSE "",
   sent |-> validateMessage(data) = "accept",
   status |-> s.net[p].status, open |-> ChannelOpen(s, p),
   isHost |-> s.net[p].isHost]

\* send(message)
Send(s, p, m) ==
  IF ChannelOpen(s, p)
  THEN [Transmit(s, s.net[p].connection, p, m)
          EXCEPT !.out = Append(@, SendRecord(s, p, m, TRUE))]
  ELSE [s EXCEPT !.out = Append(@, SendRecord(s, p, m, FALSE))]

\* updateStatus(newStatus); the status callback registered last is the
\* MultiplayerGameManager's, which only logs
updateStatus(s, p, newStatus) == [s EXCEPT !.net[p].status = newStatus]

\* startPingInterval()
startPingInterval(s, p) ==
  [s EXCEPT !.net[p].pingIntervalId = TRUE, !.net[p].timers = @ + 1]

\* stopPingInterval()
stopPingInterval(s, p) ==
  IF s.net[p].pingIntervalId
  THEN [s EXCEPT !.net[p].pingIntervalId = FALSE, !.net[p].timers = @ - 1]
  ELSE s

\* createRoom(), with the code generateRoomCode() returned
createRoom(s, p, code) ==
  LET s1 == [s EXCEPT !.net[p].isHost = TRUE, !.net[p].roomCode = code]
      s2 == updateStatus(s1, p, "connecting")
  IN [s2 EXCEPT !.net[p].peer = "new", !.net[p].peerId = s2.net[p].roomCode]

\* joinRoom(roomCode)
joinRoom(s, p, roomCode) ==
  LET s1 == [s EXCEPT !.net[p].isHost = FALSE,
                      !.net[p].roomCode =
                         [i \in 1..Len(roomCode) |-> ToUpperCase(roomCode[i])]]
      s2 == updateStatus(s1, p, "connecting")
  IN [s2 EXCEPT !.net[p].peer = "new", !.net[p].peerId = << >>]

\* what `out` records of one call of disconnect(): the manager's state at the
\* call
DisconnectRecord(s, p) ==
  [kind |-> "disconnect", from |-> p, type |-> "", sent |-> TRUE,
   status |-> s.net[p].status, open |-> ChannelOpen(s, p),
   isHost |-> s.net[p].isHost]

\* disconnect() that leaves the role and the room code as they are
disconnectKeepRole(s, p) ==
  LET s1 == stopPingInterval(s, p)
      s2 == IF s1.net[p].connection # 0
            THEN [CloseSide(s1, s1.net[p].connection, p)
                    EXCEPT !.net[p].connection = 0]
            ELSE s1
      s3 == IF s2.net[p].peer # "null"
            THEN [CloseAll(s2, ConnIds, p) EXCEPT !.net[p].peer = "null",
                                                 !.net[p].peerId = << >>]
            ELSE s2
      s4 == updateStatus(s3, p, "disconnected")
  IN Reap([s4 EXCEPT !.out = Append(@, DisconnectRecord(s, p))])

\* disconnect()
disconnect(s, p) ==
  LET s1 == stopPingInterval(s, p)
      s2 == IF s1.net[p].connection # 0
            THEN [CloseSide(s1, s1.net[p].connection, p)
                    EXCEPT !.net[p].connection = 0]
            ELSE s1
      s3 == IF s2.net[p].peer # "null"
            THEN [CloseAll(s2, ConnIds, p) EXCEPT !.net[p].peer = "null",
                                                 !.net[p].peerId = << >>]
            ELSE s2
      s4 == updateStatus(s3, p, "disconnected")
  IN Reap([s4 EXCEPT !.net[p].isHost = FALSE, !.net[p].roomCode = << >>,
                     !.out = Append(@, DisconnectRecord(s, p))])


(***************************************************************************)
(* MultiplayerGameManager: game start and the frame callbacks              *)
(***************************************************************************)
\* applyInputToPlayer(playerIndex, input) (variant "predict")
applyInputToPlayer(s, p, playerIndex, input) ==
  LET pl == s.orch[p].gameManager.players[playerIndex + 1]
      moved == [pl EXCEPT !.movement =
                  IF input.left THEN "LEFT"
                  ELSE IF input.right THEN "RIGHT" ELSE "STATIONARY"]
      shot == IF input.shoot /\ ~pl.arrow.isActive
              THEN [moved EXCEPT !.arrow.isActive = TRUE] ELSE moved
  IN IF ~s.orch[p].gameManager.alive THEN s
     ELSE [s EXCEPT !.orch[p].gameManager.players[playerIndex + 1] = shot]

\* the broadcast without the test of the interval
BroadcastEveryTick(s, p) ==
  [Send(s, p, StateUpdateMsg(serializeGameState(s.orch[p].gameManager)))
     EXCEPT !.orch[p].lastSyncTime = now]

\* the broadcast of updateMultiplayer / syncLoop:
\* if (now - lastSyncTime >= syncInterval) { send STATE_UPDATE; lastSyncTime = now }
Broadcast(s, p) ==
  IF now - s.orch[p].lastSyncTime >= syncInterval
  THEN [Send(s, p, StateUpdateMsg(serializeGameState(s.orch[p].gameManager)))
          EXCEPT !.orch[p].lastSyncTime = now]
  ELSE s

\* updateMultiplayer() (variant "predict")
updateMultiplayer(s, p) ==
  IF ~s.orch[p].gameManager.alive \/ ~isConnected(s, p) THEN s
  ELSE IF s.orch[p].isHost
       THEN Broadcast(applyInputToPlayer(
                        applyInputToPlayer(s, p, 0, s.orch[p].localInput),
                        p, 1, s.orch[p].remoteInput), p)
       ELSE applyInputToPlayer(s, p, 1, s.orch[p].localInput)

\* one call of syncLoop (variant "render"): the loop ends when there is no
\* game or no connection, and reschedules itself otherwise
syncLoop(s, p) ==
  IF ~s.orch[p].gameManager.alive \/ ~isConnected(s, p)
  THEN [s EXCEPT !.orch[p].syncLoops = @ - 1]
  ELSE IF s.orch[p].isHost THEN Broadcast(s, p) ELSE s

\* startGame() of src/src/MultiplayerGameManager.ts
startGamePredict(s, p) ==
  [s EXCEPT !.orch[p].inLobby = FALSE,
            !.orch[p].isHost = s.net[p].isHost,
            !.orch[p].gameManager = NewGameManager(TRUE, -1)]

\* startGame() of part_000: the guest's game gets onInputChange, and
\* startMultiplayerSync() makes the first call of syncLoop at once
startGameRender(s, p) ==
  LET host == s.net[p].isHost
      gm == [NewGameManager(host, IF host THEN 0 ELSE 1)
               EXCEPT !.onInputChange = ~host]
      s1 == [s EXCEPT !.orch[p].inLobby = FALSE, !.orch[p].isHost = host,
                      !.orch[p].gameManager = gm,
                      !.orch[p].syncLoops = @ + 1]
  IN syncLoop(s1, p)

\* startGame()
startGame(s, p) ==
  IF variant = "predict" THEN startGamePredict(s, p) ELSE startGameRender(s, p)

(***************************************************************************)
(* LobbyUI                                                                 *)
(***************************************************************************)
\* LobbyUI.startGame(): this.onGameStart?.(), which setupLobbyCallbacks set to
\* the orchestrator's startGame
lobbyStartGame(s, p) == startGame(s, p)

\* checkBothReady() without the test of the two flags
checkBothReadyNoFlags(s, p) ==
  IF s.net[p].isHost
  THEN lobbyStartGame(Send(s, p, PlainMsg("START_GAME")), p)
  ELSE s

\* checkBothReady() without the test of the role
checkBothReadyAnyRole(s, p) ==
  IF s.lobby[p].isReady /\ s.lobby[p].remoteReady
  THEN lobbyStartGame(Send(s, p, PlainMsg("START_GAME")), p)
  ELSE s

\* checkBothReady()
checkBothReady(s, p) ==
  IF s.lobby[p].isReady /\ s.lobby[p].remoteReady
  THEN (IF s.net[p].isHost
        THEN lobbyStartGame(Send(s, p, PlainMsg("START_GAME")), p)
        ELSE s)
  ELSE s

\* the message callback LobbyUI registers in setupNetworkCallbacks
lobbyOnMessage(s, p, message) ==
  IF message.type.s = "PLAYER_READY"
  THEN checkBothReady([s EXCEPT !.lobby[p].remoteReady = TRUE], p)
  ELSE IF message.type.s = "START_GAME" THEN lobbyStartGame(s, p)
  ELSE s

\* the Escape branch without its test of the mode
lobbyEscapeAnyMode(s, p, key) ==
  IF key = "Escape"
  THEN [disconnect(s, p) EXCEPT !.lobby[p] = LobbyInit]
  ELSE s

\* the Escape branch shared by the keydown listener and handleInput
lobbyEscape(s, p, key) ==
  IF key = "Escape" /\ s.lobby[p].mode # "menu"
  THEN [disconnect(s, p) EXCEPT !.lobby[p] = LobbyInit]
  ELSE s

\* the menu branch shared by the keydown listener and handleInput
lobbyMenuKey(s, p, key, code) ==
  IF ToLowerCase(key) = "c"
  THEN createRoom([s EXCEPT !.lobby[p].mode = "create"], p, code)
  ELSE IF ToLowerCase(key) = "j"
       THEN [s EXCEPT !.lobby[p].mode = "join", !.lobby[p].roomCodeInput = << >>]
       ELSE s

\* the join-screen branch without the test of the buffer's length
lobbyJoinKeyNoLimit(s, p, key) ==
  IF IsCodeChar(key)
  THEN [s EXCEPT !.lobby[p].roomCodeInput = Append(@, ToUpperCase(key))]
  ELSE IF key = "Backspace"
       THEN [s EXCEPT !.lobby[p].roomCodeInput =
               IF Len(@) = 0 THEN @ ELSE SubSeq(@, 1, Len(@) - 1)]
  ELSE IF key = "Enter" /\ Len(s.lobby[p].roomCodeInput) = CodeLen
       THEN [joinRoom(s, p, s.lobby[p].roomCodeInput) EXCEPT !.lobby[p].mode = "create"]
  ELSE s

\* the join-screen branch of the keydown listener
lobbyJoinKey(s, p, key) ==
  IF IsCodeChar(key)
  THEN (IF Len(s.lobby[p].roomCodeInput) < CodeLen
        THEN [s EXCEPT !.lobby[p].roomCodeInput = Append(@, ToUpperCase(key))]
        ELSE s)
  ELSE IF key = "Backspace"
       THEN [s EXCEPT !.lobby[p].roomCodeInput =
               IF Len(@) = 0 THEN @ ELSE SubSeq(@, 1, Len(@) - 1)]
  ELSE IF key = "Enter" /\ Len(s.lobby[p].roomCodeInput) = CodeLen
       THEN [joinRoom(s, p, s.lobby[p].roomCodeInput) EXCEPT !.lobby[p].mode = "create"]
  ELSE s

\* the ready branch without the test of isConnected()
lobbyReadyKeyAnyStatus(s, p, key) ==
  IF ToLowerCase(key) = "r" /\ ~s.lobby[p].isReady
  THEN checkBothReady(
         Send([s EXCEPT !.lobby[p].isReady = TRUE], p,
              PlayerReadyMsg(IF s.net[p].isHost THEN "Player 1" ELSE "Player 2")),
         p)
  ELSE s

\* the ready branch of the keydown listener
lobbyReadyKey(s, p, key) ==
  IF isConnected(s, p) /\ ToLowerCase(key) = "r" /\ ~s.lobby[p].isReady
  THEN checkBothReady(
         Send([s EXCEPT !.lobby[p].isReady = TRUE], p,
              PlayerReadyMsg(IF s.net[p].isHost THEN "Player 1" ELSE "Player 2")),
         p)
  ELSE s

\* the keydown listener LobbyUI adds to the document in setupInputHandlers
lobbyKeyDown(s, p, key, code) ==
  LET s1 == IF s.lobby[p].mode = "menu" THEN lobbyMenuKey(s, p, key, code)
            ELSE IF s.lobby[p].mode = "join" THEN lobbyJoinKey(s, p, key)
            ELSE lobbyReadyKey(s, p, key)
  IN lobbyEscape(s1, p, key)

\* handleInput(key)
handleInput(s, p, key, code) ==
  lobbyEscape(IF s.lobby[p].mode = "menu" THEN lobbyMenuKey(s, p, key, code) ELSE s,
              p, key)


(***************************************************************************)
(* MultiplayerGameManager: messages, keys, disconnect                      *)
(***************************************************************************)
\* message.data as the handlers read it: `if (input.left)` and the like test
\* the properties' truthiness
InputOf(data) ==
  [left |-> Truthy(data.left), right |-> Truthy(data.right),
   shoot |-> Truthy(data.shoot)]

\* GameStateSync.applyGameState(gameManager, message.data) on the data of a
\* validated STATE_UPDATE: an object without the snapshot's lists empties the
\* bubble collection and then throws in bubbles.forEach
applyStateData(gm, data) ==
  IF data.state.present THEN applyGameState(gm, data.state)
  ELSE [gm EXCEPT !.bubbleArray = << >>]

\* the STATE_UPDATE case without the test of the role
onStateUpdateAnyRole(s, p, message) ==
  IF s.orch[p].gameManager.alive
  THEN [s EXCEPT !.orch[p].gameManager = applyStateData(@, message.data)]
  ELSE s

\* case MessageType.STATE_UPDATE of handleNetworkMessage (both variants)
onStateUpdate(s, p, message) ==
  IF ~s.orch[p].isHost /\ s.orch[p].gameManager.alive
  THEN [s EXCEPT !.orch[p].gameManager = applyStateData(@, message.data)]
  ELSE s

\* applyGuestInput(input) (variant "render")
applyGuestInput(s, p, input) ==
  LET pl == s.orch[p].gameManager.players[2]
      moved == IF input.left
               THEN [pl EXCEPT !.movement = "LEFT", !.tempMovement = "LEFT"]
               ELSE IF input.right
               THEN [pl EXCEPT !.movement = "RIGHT", !.tempMovement = "RIGHT"]
               ELSE IF ~input.shoot
               THEN [pl EXCEPT !.movement = "STATIONARY",
                               !.tempMovement = "STATIONARY"]
               ELSE pl
      shot == IF input.shoot /\ ~pl.arrow.isActive
              THEN [moved EXCEPT !.arrow.isActive = TRUE] ELSE moved
  IN [s EXCEPT !.orch[p].gameManager.players[2] = shot]

\* LobbyUI.handleMessage(message), which part_000 calls while in the lobby:
\* the lobby's handling of PLAYER_READY and START_GAME
lobbyHandleMessage(s, p, message) == lobbyOnMessage(s, p, message)

\* handleNetworkMessage(message) of src/src/MultiplayerGameManager.ts
handleNetworkMessagePredict(s, p, message) ==
  CASE message.type.s = "INPUT" ->
         [s EXCEPT !.orch[p].remoteInput = InputOf(message.data)]
    [] message.type.s = "STATE_UPDATE" -> onStateUpdate(s, p, message)
    [] OTHER -> s

\* handleNetworkMessage(message) of part_000
handleNetworkMessageRender(s, p, message) ==
  IF s.orch[p].inLobby THEN lobbyHandleMessage(s, p, message)
  ELSE CASE message.type.s = "INPUT" ->
              IF s.orch[p].isHost /\ s.orch[p].gameManager.alive
              THEN applyGuestInput(s, p, InputOf(message.data)) ELSE s
         [] message.type.s = "STATE_UPDATE" -> onStateUpdate(s, p, message)
         [] OTHER -> s

\* a message callback that answers a SYNC and measures the round trip
onMessageCallbackPong(s, p, message) ==
  IF message.type.s = "SYNC"
  THEN Send([s EXCEPT !.net[p].latency = now - message.timestamp.n], p, PlainMsg("SYNC"))
  ELSE IF variant = "predict" THEN handleNetworkMessagePredict(s, p, message)
  ELSE handleNetworkMessageRender(s, p, message)

\* the message callback registered with the NetworkManager: LobbyUI's
\* constructor registers lobbyOnMessage first, the orchestrator's
\* setupNetworkCallbacks() then replaces it
onMessageCallback(s, p, message) ==
  IF variant = "predict" THEN handleNetworkMessagePredict(s, p, message)
  ELSE handleNetworkMessageRender(s, p, message)

\* the 'data' handler without validation
onDataUnvalidated(s, p, data) ==
  onMessageCallback([s EXCEPT !.out = Append(@, DataRecord(s, p, data))], p, data)

\* does the try block of the 'data' handler throw on this payload: in
\* validateMessage, or in the callback when applyGameState is given data
\* without a snapshot's lists (bubbles.forEach on undefined)
Throws(s, p, data) ==
  \/ validateMessage(data) = "throw"
  \/ /\ validateMessage(data) = "accept" /\ data.type.s = "STATE_UPDATE"
     /\ variant = "render" => ~s.orch[p].inLobby
     /\ ~s.orch[p].isHost /\ s.orch[p].gameManager.alive
     /\ ~data.data.state.present

\* the 'data' handler whose catch block reports the exception as a connection
\* error
onDataCatchError(s, p, data) ==
  LET s1 == [s EXCEPT !.out = Append(@, DataRecord(s, p, data))]
      s2 == IF validateMessage(data) = "accept" THEN onMessageCallback(s1, p, data)
            ELSE s1
  IN IF Throws(s, p, data) THEN updateStatus(s2, p, "error") ELSE s2

\* the 'data' handler that reports an invalid payload as a transport error
onDataEscalating(s, p, data) ==
  LET s1 == [s EXCEPT !.out = Append(@, DataRecord(s, p, data))]
  IN IF validateMessage(data) = "accept" THEN onMessageCallback(s1, p, data)
     ELSE updateStatus(s1, p, "error")

\* connection.on('data'): an exception of validateMessage or of the callback is
\* caught and logged
onData(s, p, data) ==
  LET s1 == [s EXCEPT !.out = Append(@, DataRecord(s, p, data))]
  IN IF validateMessage(data) = "accept" THEN onMessageCallback(s1, p, data) ELSE s1

\* the seat whose control keys the orchestrator reads
LocalSeat(s, p) == IF s.orch[p].isHost THEN 0 ELSE 1

\* localInput after a game key went down or up
KeyInput(input, key, down) ==
  CASE key = "Left" -> [input EXCEPT !.left = down]
    [] key = "Shoot" -> [input EXCEPT !.shoot = down]
    [] OTHER -> input

\* the orchestrator's keydown (down) and keyup listeners (variant "predict")
orchKey(s, p, key, code, down) ==
  IF s.orch[p].inLobby THEN (IF down THEN handleInput(s, p, key, code) ELSE s)
  ELSE IF ~s.orch[p].gameManager.alive THEN s
  ELSE LET s1 == [s EXCEPT !.orch[p].localInput = KeyInput(@, key, down)]
       IN IF ~s1.orch[p].isHost /\ isConnected(s1, p)
          THEN Send(s1, p, InputMsg(s1.orch[p].localInput)) ELSE s1

\* the keydown and keyup listeners of the GameManager that was alive when the
\* key event was dispatched
gameKey(s, p, key, down) ==
  LET gm == s.orch[p].gameManager
      ks == KeyInput(gm.keyState, key, down)
      seat == IF gm.localPlayerIndex >= 0 THEN gm.localPlayerIndex ELSE LocalSeat(s, p)
      pl == gm.players[seat + 1]
      left == IF ks.left
              THEN [pl EXCEPT !.movement = "LEFT", !.tempMovement = "LEFT"] ELSE pl
      local == IF down
               THEN (IF ks.shoot
                     THEN [left EXCEPT !.movement = "STATIONARY",
                                       !.arrow.isActive = TRUE]
                     ELSE left)
               ELSE IF key = "Left"
                    THEN [pl EXCEPT !.movement = "STATIONARY",
                                    !.tempMovement = "STATIONARY"]
               ELSE IF key = "Shoot" THEN [pl EXCEPT !.movement = pl.tempMovement]
               ELSE pl
      s1 == [s EXCEPT !.orch[p].gameManager.keyState = ks]
  IN IF ~gm.alive THEN s
     ELSE IF gm.localPlayerIndex = 1
          THEN (IF gm.onInputChange THEN Send(s1, p, InputMsg(ks)) ELSE s1)
          ELSE [s1 EXCEPT !.orch[p].gameManager.players[seat + 1] = local]

\* MultiplayerGameManager.disconnect()
orchDisconnect(s, p) ==
  [disconnect(s, p) EXCEPT !.orch[p].inLobby = TRUE,
                           !.orch[p].gameManager = NoGame]

(***************************************************************************)
(* NetworkManager: the handlers of the peer and of the connection          *)
(***************************************************************************)
\* peer.on('open') of joinRoom: connect to the room (the new DataConnection
\* takes slot c), set up the handlers
peerOpenGuest(s, p, c) ==
  [s EXCEPT !.net[p].peer = "open", !.net[p].connection = c,
            !.conns[c] = [NoConn EXCEPT !.g = p, !.target = s.net[p].roomCode,
                                       !.gs = "pending", !.hs = "unbound"]]

\* peer.on('open') of createRoom: the room-created callback sets a text
peerOpenHost(s, p) == [s EXCEPT !.net[p].peer = "open"]

\* peer.on('connection') of createRoom
peerConnection(s, p, c) ==
  [s EXCEPT !.net[p].connection = c, !.conns[c].h = p, !.conns[c].hs = "pending"]

\* connection.on('open')
connOpen(s, p) == startPingInterval(updateStatus(s, p, "connected"), p)

\* connection.on('close') that also puts the orchestrator back into lobby mode
connCloseToLobby(s, p) ==
  [stopPingInterval(updateStatus(s, p, "disconnected"), p)
     EXCEPT !.orch[p].inLobby = TRUE]

\* connection.on('close')
connClose(s, p) == stopPingInterval(updateStatus(s, p, "disconnected"), p)

\* connection.on('error') and peer.on('error')
onError(s, p) == updateStatus(s, p, "error")

\* the setInterval callback of startPingInterval
pingInterval(s, p) ==
  IF ChannelOpen(s, p)
  THEN Send([s EXCEPT !.net[p].lastPingTime = now], p, PlainMsg("SYNC"))
  ELSE s


(***************************************************************************)
(* The simulation's own progress, opaque to the synchronisation code       *)
(***************************************************************************)
\* a later moment of a game: seat 0 was hit and scored, one bubble is left and
\* only seat 1 has an active arrow
Scene(gm) ==
  [gm EXCEPT
     !.players[1].x = 100, !.players[1].y = 200, !.players[1].score = 5,
     !.players[1].lives = 2,
     !.players[2].arrow = [x |-> 7, y |-> 9, isActive |-> TRUE],
     !.bubbleArray = << [x |-> 1, y |-> 2, radius |-> 3, dx |-> 1, dy |-> -1] >>,
     !.score = 5, !.timeRemaining = 12000, !.level = 2]

\* payloads a non-conforming remote sends to a lobby
LobbyPayloads ==
  { RawObj(JStr("PLAYER_READY"), JNum(StartTime), NoData, JUndef, JUndef, JNum(1)),
    RawObj(JStr("PLAYER_READY"), JNum(StartTime), NoData, JUndef, JUndef,
           JStr("Player 2")),
    RawObj(JStr("START_GAME"), JNum(StartTime), NoData, JUndef, JUndef, JUndef),
    RawObj(JStr("START_GAME"), JStr("now"), NoData, JUndef, JUndef, JUndef) }

\* a well-formed STATE_UPDATE carrying the snapshot of Scene
ScenePayload ==
  RawObj(JStr("STATE_UPDATE"), JNum(StartTime),
         DataObj(JUndef, JUndef, JUndef, serializeGameState(Scene(NewGameManager(TRUE, 0)))),
         JUndef, JUndef, JUndef)

\* a STATE_UPDATE whose data is an object without the fields of a snapshot
\* ({type: 'STATE_UPDATE', timestamp, data: {}})
EmptyStatePayload ==
  RawObj(JStr("STATE_UPDATE"), JNum(StartTime),
         DataObj(JUndef, JUndef, JUndef, NoState), JUndef, JUndef, JUndef)

\* payloads a non-conforming remote sends to a game
GamePayloads ==
  { RawObj(JStr("INPUT"), JNum(StartTime),
           DataObj(JStr("yes"), JUndef, JUndef, NoState), JUndef, JUndef, JUndef),
    ScenePayload, EmptyStatePayload,
    RawObj(JStr("STATE_UPDATE"), JNum(StartTime), DataPrim(JStr("state")),
           JUndef, JUndef, JUndef) }

\* the payloads a non-conforming remote sends
ForeignPayloads ==
  LobbyPayloads \cup GamePayloads \cup
  { RawObj(JStr("INPUT"), JUndef,
           DataObj(JBool(TRUE), JBool(FALSE), JBool(FALSE), NoState),
           JUndef, JUndef, JUndef),
    RawPrim(JNull) }

(***************************************************************************)
(* Actions                                                                 *)
(***************************************************************************)
\* the bounds on what a step may leave behind
Bounded(s) ==
  /\ \A c \in ConnIds : Len(s.conns[c].toHost) <= MaxQueue /\
                        Len(s.conns[c].toGuest) <= MaxQueue
  /\ \A p \in Peers : s.net[p].timers <= MaxTimers /\ s.orch[p].syncLoops <= 1

Apply(s) ==
  /\ Bounded(s)
  /\ net' = s.net
  /\ lobby' = s.lobby
  /\ orch' = s.orch
  /\ conns' = s.conns
  /\ out' = s.out
  /\ UNCHANGED << variant, now, payload, verdict >>

\* generateRoomCode() with a loop of one character less
generateRoomCodeShort(draw) == [i \in 1..(CodeLen - 1) |-> chars[draw[i] + 1]]

\* generateRoomCode(), draw[i] being Math.floor(Math.random() * chars.length)
\* of the i-th iteration
generateRoomCode(draw) == [i \in 1..CodeLen |-> chars[draw[i] + 1]]

\* the codes generateRoomCode() returns in the model
RoomCodes == {generateRoomCode(draw) : draw \in [1..CodeLen -> RandIdx]}

\* a keydown event: the lobby's listener, then the orchestrator's (variant
\* "predict"), then the listeners of the game that was alive before the event
KeyDown(p, key) ==
  /\ (lobby[p].mode = "join" /\ IsCodeChar(key)) =>
        \E w \in TypedCodes : IsPrefix(Append(lobby[p].roomCodeInput, ToUpperCase(key)), w)
  /\ \E code \in RoomCodes :
       LET s1 == lobbyKeyDown(St, p, key, code)
           s2 == IF variant = "predict" THEN orchKey(s1, p, key, code, TRUE) ELSE s1
           s3 == IF orch[p].gameManager.alive THEN gameKey(s2, p, key, TRUE) ELSE s2
       IN Apply(s3)
  /\ UNCHANGED faults

\* a keyup event of a game key
KeyUp(p, key) ==
  /\ key \in {"Left", "Shoot"}
  /\ LET s1 == IF variant = "predict" THEN orchKey(St, p, key, << >>, FALSE) ELSE St
         s2 == IF orch[p].gameManager.alive THEN gameKey(s1, p, key, FALSE) ELSE s1
     IN Apply(s2)
  /\ UNCHANGED faults


\* an animation frame of run() (variant "predict"): the lobby is drawn, or the
\* multiplayer state is updated
Frame(p) ==
  /\ variant = "predict"
  /\ ~orch[p].inLobby /\ orch[p].gameManager.alive
  /\ Apply(updateMultiplayer(St, p))
  /\ UNCHANGED faults

\* an animation frame of a scheduled syncLoop (variant "render")
SyncFrame(p) ==
  /\ variant = "render"
  /\ orch[p].syncLoops > 0
  /\ Apply(syncLoop(St, p))
  /\ UNCHANGED faults

\* a ping timer fires
PingTimer(p) ==
  /\ net[p].timers > 0
  /\ Apply(pingInterval(St, p))
  /\ UNCHANGED faults

\* the running simulation advances (the host's, or any in variant "predict")
GameStep(p) ==
  /\ orch[p].gameManager.alive /\ orch[p].gameManager.autoStart
  /\ Scene(orch[p].gameManager) # orch[p].gameManager
  /\ Apply([St EXCEPT !.orch[p].gameManager = Scene(@)])
  /\ UNCHANGED faults

\* time passes while a game reads the clock
ClockTick ==
  /\ now < StartTime + MaxTicks * ClockStep
  /\ \E p \in Peers : orch[p].gameManager.alive
  /\ now' = now + ClockStep
  /\ out' = << >>
  /\ UNCHANGED << variant, net, lobby, orch, conns, faults, payload, verdict >>

\* the page calls MultiplayerGameManager.disconnect()
OrchDisconnect(p) ==
  /\ ~orch[p].inLobby \/ net[p].peer # "null"
  /\ Apply(orchDisconnect(St, p))
  /\ UNCHANGED faults

\* the peer reaches the signalling server: 'open'.  A room code is an
\* identifier only one open peer can hold; a guest's new DataConnection takes
\* the first free slot among the first `slots` ones.
PeerOpen(p, slots) ==
  /\ net[p].peer = "new"
  /\ IF net[p].isHost
     THEN /\ \A q \in Peers \ {p} :
               ~(net[q].peer = "open" /\ net[q].peerId = net[p].peerId)
          /\ Apply(peerOpenHost(St, p))
     ELSE \E c \in 1..slots :
            /\ conns[c].gs = "free"
            /\ \A d \in 1..(c - 1) : conns[d].gs # "free"
            /\ Apply(peerOpenGuest(St, p, c))
  /\ UNCHANGED faults

\* the host's peer emits 'connection' for a connection made to its room code
PeerConnection(p, c) ==
  /\ net[p].peer = "open" /\ net[p].isHost
  /\ conns[c].gs \in {"pending", "open"} /\ conns[c].hs = "unbound"
  /\ conns[c].target = net[p].peerId /\ ~conns[c].lost
  /\ Apply(peerConnection(St, p, c))
  /\ UNCHANGED faults

\* the owner of a side of connection c
Owner(c, side) == IF side = "g" THEN conns[c].g ELSE conns[c].h

SideState(c, side) == IF side = "g" THEN conns[c].gs ELSE conns[c].hs

WithSide(s, c, side, st) ==
  IF side = "g" THEN [s EXCEPT !.conns[c].gs = st] ELSE [s EXCEPT !.conns[c].hs = st]

\* the data channel of one side opens: 'open'
ConnOpen(c, side) ==
  /\ Owner(c, side) \in Peers
  /\ SideState(c, side) = "pending" /\ conns[c].hs # "unbound" /\ ~conns[c].lost
  /\ (IF side = "g" THEN conns[c].hs ELSE conns[c].gs) # "closed"
  /\ Apply(connOpen(WithSide(St, c, side, "open"), Owner(c, side)))
  /\ UNCHANGED faults

\* the next message arrives at an open side: 'data'
ConnData(c, side) ==
  /\ Owner(c, side) \in Peers
  /\ SideState(c, side) = "open"
  /\ LET q == IF side = "g" THEN conns[c].toGuest ELSE conns[c].toHost
         s1 == IF side = "g" THEN [St EXCEPT !.conns[c].toGuest = Tail(@)]
               ELSE [St EXCEPT !.conns[c].toHost = Tail(@)]
     IN /\ q # << >>
        /\ Apply(onData(s1, Owner(c, side), Head(q)))
  /\ UNCHANGED faults

\* a side learns that the other side or the transport is gone: 'close'
ConnClose(c, side) ==
  /\ Owner(c, side) \in Peers
  /\ SideState(c, side) \in {"pending", "open"}
  /\ conns[c].lost \/ (IF side = "g" THEN conns[c].hs ELSE conns[c].gs) = "closed"
  /\ LET p == Owner(c, side)
         s1 == WithSide([St EXCEPT !.conns[c].toHost = << >>,
                                   !.conns[c].toGuest = << >>], c, side, "closed")
     IN Apply(Reap(connClose(s1, p)))
  /\ UNCHANGED faults

\* transport fault: the connection is lost underneath both sides
ConnLost(c) ==
  /\ faults < MaxFaults
  /\ conns[c].gs \in {"pending", "open"} /\ ~conns[c].lost
  /\ faults' = faults + 1
  /\ Apply([St EXCEPT !.conns[c].lost = TRUE, !.conns[c].toHost = << >>,
                      !.conns[c].toGuest = << >>])

\* transport fault: a side of the connection emits 'error'
ConnError(c, side) ==
  /\ faults < MaxFaults
  /\ Owner(c, side) \in Peers
  /\ SideState(c, side) \in {"pending", "open"}
  /\ faults' = faults + 1
  /\ Apply(onError(St, Owner(c, side)))

\* transport fault: the peer emits 'error'
PeerError(p) ==
  /\ faults < MaxFaults
  /\ net[p].peer # "null"
  /\ faults' = faults + 1
  /\ Apply(onError(St, p))

\* a payload that the program did not construct arrives at an open side
Foreign(c, side, raw) ==
  /\ faults < MaxFaults
  /\ Owner(c, side) \in Peers
  /\ SideState(c, side) = "open"
  /\ faults' = faults + 1
  /\ Apply(onData(St, Owner(c, side), raw))

\* A further guest, on a machine of its own, whose side of the connection is
\* all the model keeps of it (conns[c].g = "remote"): it connects to an open
\* room, its side of the channel opens, it takes a message sent to it.
Remote(c) ==
  /\ \/ /\ conns[c].gs = "free" /\ \A d \in 1..(c - 1) : conns[d].gs # "free"
        /\ \A d \in ConnIds : conns[d].g # "remote"
        /\ \E p \in Peers :
             /\ net[p].peer = "open" /\ net[p].isHost
             /\ Apply([St EXCEPT !.conns[c] =
                         [NoConn EXCEPT !.g = "remote", !.target = net[p].peerId,
                                        !.gs = "pending", !.hs = "unbound"]])
     \/ /\ conns[c].g = "remote" /\ conns[c].gs = "pending"
        /\ conns[c].hs \in {"pending", "open"}
        /\ Apply([St EXCEPT !.conns[c].gs = "open"])
     \/ /\ conns[c].g = "remote" /\ conns[c].gs = "open" /\ conns[c].toGuest # << >>
        /\ Apply([St EXCEPT !.conns[c].toGuest = Tail(@)])
  /\ UNCHANGED faults

Init ==
  /\ variant \in Variants
  /\ now = StartTime
  /\ net = [p \in Peers |-> NetInit]
  /\ lobby = [p \in Peers |-> LobbyInit]
  /\ orch = [p \in Peers |-> OrchInit]
  /\ conns = [c \in ConnIds |-> NoConn]
  /\ out = << >>
  /\ faults = 0
  /\ payload = RawPrim(JUndef)
  /\ verdict = "none"

\* the events of the signalling server and of the data channel, with one
\* DataConnection alive at a time
Transport ==
  \/ \E p \in Peers : PeerOpen(p, 1)
  \/ \E p \in Peers, c \in ConnIds : PeerConnection(p, c)
  \/ \E c \in ConnIds, side \in {"g", "h"} : ConnOpen(c, side)
  \/ \E c \in ConnIds, side \in {"g", "h"} : ConnData(c, side)
  \/ \E c \in ConnIds, side \in {"g", "h"} : ConnClose(c, side)

\* transport faults
Fault ==
  \/ \E c \in ConnIds : ConnLost(c)
  \/ \E c \in ConnIds, side \in {"g", "h"} : ConnError(c, side)
  \/ \E p \in Peers : PeerError(p)

\* the same with up to MaxConns of them
TransportAll ==
  \/ \E p \in Peers : PeerOpen(p, MaxConns)
  \/ \E p \in Peers, c \in ConnIds : PeerConnection(p, c)
  \/ \E c \in ConnIds, side \in {"g", "h"} : ConnOpen(c, side)
  \/ \E c \in ConnIds, side \in {"g", "h"} : ConnData(c, side)
  \/ \E c \in ConnIds, side \in {"g", "h"} : ConnClose(c, side)

Next ==
  \/ \E p \in Peers, key \in Keys : KeyDown(p, key)
  \/ \E p \in Peers, key \in Keys : KeyUp(p, key)
  \/ \E p \in Peers : Frame(p)
  \/ \E p \in Peers : SyncFrame(p)
  \/ \E p \in Peers : PingTimer(p)
  \/ \E p \in Peers : GameStep(p)
  \/ ClockTick
  \/ \E p \in Peers : OrchDisconnect(p)
  \/ TransportAll
  \/ Fault
  \/ \E c \in ConnIds, side \in {"g", "h"}, raw \in ForeignPayloads : Foreign(c, side, raw)

Spec == Init /\ [][Next]_vars

(***************************************************************************)
(* The lobby: rooms, the ready handshake, faults and foreign payloads      *)
(***************************************************************************)
NextLobby ==
  \/ \E p \in Peers, key \in LobbyKeys : KeyDown(p, key)
  \/ Transport
  \/ Fault
  \/ \E c \in ConnIds, side \in {"g", "h"}, raw \in LobbyPayloads : Foreign(c, side, raw)

SpecLobby == Init /\ [][NextLobby]_vars

(***************************************************************************)
(* One session with its game: the controls, the simulation's progress, the *)
(* clock, foreign payloads                                                 *)
(***************************************************************************)
NextGame ==
  \/ \E p \in Peers, key \in {"c", "j", "r", "Enter"} \cup GameKeys : KeyDown(p, key)
  \/ \E p \in Peers, key \in GameKeys : KeyUp(p, key)
  \/ \E p \in Peers : SyncFrame(p)
  \/ \E p \in Peers : GameStep(p)
  \/ ClockTick
  \/ \E p \in Peers : PeerOpen(p, 1)
  \/ \E p \in Peers, c \in ConnIds : PeerConnection(p, c)
  \/ \E c \in ConnIds, side \in {"g", "h"} : ConnOpen(c, side)
  \/ \E c \in ConnIds, side \in {"g", "h"} : ConnData(c, side)
  \/ \E c \in ConnIds, side \in {"g", "h"}, raw \in GamePayloads : Foreign(c, side, raw)

SpecGame == Init /\ [][NextGame]_vars

(***************************************************************************)
(* Sessions one after the other, with the clock                            *)
(***************************************************************************)
NextSessions ==
  \/ \E p \in Peers, key \in LobbyKeys \ {"Backspace"} : KeyDown(p, key)
  \/ \E p \in Peers : SyncFrame(p)
  \/ ClockTick
  \/ Transport

SpecSessions == Init /\ [][NextSessions]_vars

(***************************************************************************)
(* One clean session: no cancel, no fault                                  *)
(***************************************************************************)
NextHandshake ==
  \/ \E p \in Peers, key \in {"c", "j", "r", "Enter"} : KeyDown(p, key)
  \/ \E p \in Peers : PeerOpen(p, 1)
  \/ \E p \in Peers, c \in ConnIds : PeerConnection(p, c)
  \/ \E c \in ConnIds, side \in {"g", "h"} : ConnOpen(c, side)
  \/ \E c \in ConnIds, side \in {"g", "h"} : ConnData(c, side)

SpecHandshake == Init /\ [][NextHandshake]_vars

(***************************************************************************)
(* One clean session to whose room a further guest connects                *)
(***************************************************************************)
NextGuests ==
  \/ NextHandshake
  \/ \E c \in ConnIds : Remote(c)

SpecGuests == Init /\ [][NextGuests]_vars

(***************************************************************************)
(* A guest that leaves and joins the room again while the host still holds *)
(* the earlier connection                                                  *)
(***************************************************************************)
NextRejoin ==
  \/ \E p \in Peers, key \in LobbyKeys \ {"Backspace"} : KeyDown(p, key)
  \/ TransportAll

SpecRejoin == Init /\ [][NextRejoin]_vars

(***************************************************************************)
(* validateMessage on its own, over payloads built from a few values of    *)
(* each JS type                                                            *)
(***************************************************************************)
TypeValues ==
  {JStr(t) : t \in MessageType} \cup {JStr("HELLO"), JStr(""), JNum(1), JUndef}

TimestampValues == {JUndef, JNum(0), JNum(7), JStr("7")}

DataValues ==
  {NoData, DataPrim(JNull), DataPrim(JStr("s")), DataPrim(JNum(0))} \cup
  {DataObj(l, r, sh, NoState) :
     l \in {JUndef, JBool(TRUE), JStr("yes")}, r \in {JUndef, JBool(FALSE)},
     sh \in {JBool(FALSE), JNull}}

Payloads ==
  {RawPrim(v) : v \in {JUndef, JNull, JNum(3), JStr("INPUT"), JBool(TRUE)}} \cup
  {RawObj(ty, ts, d, w, fs, pn) :
     ty \in TypeValues, ts \in TimestampValues, d \in DataValues,
     w \in {JUndef, JBool(TRUE), JStr("true")}, fs \in {JUndef, JNum(1)},
     pn \in {JUndef, JStr("a"), JNum(1)}}

InitValidate ==
  /\ variant = "predict"
  /\ now = StartTime
  /\ net = [p \in Peers |-> NetInit]
  /\ lobby = [p \in Peers |-> LobbyInit]
  /\ orch = [p \in Peers |-> OrchInit]
  /\ conns = [c \in ConnIds |-> NoConn]
  /\ out = << >>
  /\ faults = 0
  /\ payload \in Payloads
  /\ verdict = "none"

\* one call of validateMessage(payload)
Validate ==
  /\ verdict = "none"
  /\ verdict' = validateMessage(payload)
  /\ UNCHANGED << variant, now, net, lobby, orch, conns, out, faults, payload >>

NextValidate == Validate

SpecValidate == InitValidate /\ [][NextValidate]_vars

(***************************************************************************)
(* GameStateSync on its own: a snapshot is taken of p1's simulation or     *)
(* sent by a remote, and applied to a simulation                           *)
(***************************************************************************)
\* the seats of the modelled simulations: at the start or moved and scored,
\* with no or all lives, with or without an active arrow
SeatValues ==
  { [NewPlayer EXCEPT !.x = m.x, !.y = m.y, !.score = m.score, !.lives = l,
                      !.arrow = a] :
      m \in { [x |-> 0, y |-> 0, score |-> 0], [x |-> 100, y |-> 200, score |-> 5] },
      l \in {0, 3},
      a \in { NoArrow, [x |-> 7, y |-> 9, isActive |-> TRUE] } }

\* the bubbles of the modelled simulations and snapshots
BubbleValues ==
  { << >>,
    << [x |-> 1, y |-> 2, radius |-> 3, dx |-> 1, dy |-> -1],
       [x |-> 4, y |-> 5, radius |-> 6, dx |-> -1, dy |-> 1] >> }

\* simulations a host can hold
Sims ==
  { [NewGameManager(TRUE, 0) EXCEPT
       !.players = << s1, s2 >>, !.bubbleArray = b,
       !.score = IF b = << >> THEN 0 ELSE 5,
       !.timeRemaining = IF b = << >> THEN 0 ELSE 12000,
       !.level = IF b = << >> THEN 1 ELSE 2] :
      s1 \in SeatValues, s2 \in SeatValues, b \in BubbleValues }

\* simulations a guest can hold: a new one, and one in play whose seat 1 moves
\* left with its arrow in flight
GuestSims ==
  { NewGameManager(FALSE, 1),
    [NewGameManager(FALSE, 1) EXCEPT
       !.players[2].movement = "LEFT",
       !.players[1].arrow = [x |-> 3, y |-> 3, isActive |-> TRUE],
       !.players[2].arrow = [x |-> 5, y |-> 5, isActive |-> TRUE],
       !.bubbleArray = << [x |-> 9, y |-> 9, radius |-> 9, dx |-> 1, dy |-> 1] >>] }

PlayerStates ==
  { [x |-> 0, y |-> 0, score |-> 0, lives |-> 0],
    [x |-> 100, y |-> 200, score |-> 5, lives |-> 2] }

\* snapshots (GameState objects) a remote can send
Snapshots ==
  { [present |-> TRUE, player1 |-> p1, player2 |-> p2, bubbles |-> b, arrows |-> a,
     score |-> 5, timeRemaining |-> 12000, level |-> 2] :
      p1 \in PlayerStates, p2 \in PlayerStates, b \in BubbleValues,
      a \in { << >>, << [x |-> 7, y |-> 9, isActive |-> TRUE] >>,
              << [x |-> 7, y |-> 9, isActive |-> TRUE],
                 [x |-> 8, y |-> 8, isActive |-> TRUE] >> } }

InitSync ==
  /\ variant = "render"
  /\ now = StartTime
  /\ net = [p \in Peers |-> NetInit]
  /\ lobby = [p \in Peers |-> LobbyInit]
  /\ \E h \in Sims, g \in GuestSims :
       orch = [p \in Peers |->
                 IF p = "p1"
                 THEN [OrchInit EXCEPT !.inLobby = FALSE, !.isHost = TRUE,
                                       !.gameManager = h]
                 ELSE [OrchInit EXCEPT !.inLobby = FALSE, !.gameManager = g]]
  /\ conns = [c \in ConnIds |-> NoConn]
  /\ out = << >>
  /\ faults = 0
  /\ payload = RawPrim(JUndef)
  /\ verdict = "none"

\* GameStateSync.serializeGameState(gameManager) of p1, wrapped in a
\* STATE_UPDATE as updateMultiplayer and syncLoop do
Serialize ==
  /\ payload = RawPrim(JUndef)
  /\ payload' = StateUpdateMsg(serializeGameState(orch["p1"].gameManager))
  /\ UNCHANGED << variant, now, net, lobby, orch, conns, out, faults, verdict >>

\* a STATE_UPDATE some remote built: it carries a snapshot, or a data object
\* without a snapshot's fields
Forge(raw) ==
  /\ payload = RawPrim(JUndef)
  /\ payload' = raw
  /\ UNCHANGED << variant, now, net, lobby, orch, conns, out, faults, verdict >>

\* the validated message is handled by p's orchestrator: the STATE_UPDATE
\* case of handleNetworkMessage, which applies it to a guest's simulation
ApplySnapshot(p) ==
  /\ payload # RawPrim(JUndef) /\ verdict = "none"
  /\ validateMessage(payload) = "accept"
  /\ verdict' = "accept"
  /\ orch' = onStateUpdate(St, p, payload).orch
  /\ UNCHANGED << variant, now, net, lobby, conns, out, faults, payload >>

NextSync ==
  \/ Serialize
  \/ \E snap \in Snapshots : Forge(StateUpdateMsg(snap))
  \/ Forge(EmptyStatePayload)
  \/ \E p \in Peers : ApplySnapshot(p)

SpecSync == InitSync /\ [][NextSync]_vars

(***************************************************************************)
(* Properties                                                              *)
(***************************************************************************)
\* a payload as C7 describes the accepted ones
WellFormed(msg) ==
  /\ msg.v.t = "object"
  /\ msg.type.t = "string" /\ msg.type.s \in MessageType
  /\ msg.timestamp.t = "number"
  /\ msg.type.s = "INPUT" =>
        /\ msg.data.v.t = "object"
        /\ msg.data.left.t = "boolean"
        /\ msg.data.right.t = "boolean"
        /\ msg.data.shoot.t = "boolean"
  /\ msg.type.s = "STATE_UPDATE" => msg.data.v.t = "object"
  /\ msg.type.s = "GAME_OVER" => msg.won.t = "boolean" /\ msg.finalScore.t = "number"
  /\ msg.type.s = "PLAYER_READY" => msg.playerName.t = "string"

\* C7: validateMessage accepts a payload exactly when it is an object with a
\* recognized type, a numeric timestamp and the fields its type requires, of
\* the required types; every other payload is rejected, and no payload makes
\* it throw.
C7_ValidateAcceptsExactlyWellFormed ==
  verdict # "none" =>
    /\ verdict # "throw"
    /\ verdict = "accept" <=> WellFormed(payload)

\* an INPUT whose left is a string, otherwise well-formed, was rejected
C7_Witness ==
  /\ verdict = "reject"
  /\ payload.type = JStr("INPUT") /\ payload.timestamp = JNum(7)
  /\ payload.data.left = JStr("yes") /\ payload.data.right = JBool(FALSE)
  /\ payload.data.shoot = JBool(FALSE)

\* the records of the last step
OutRecs == {out[i] : i \in DOMAIN out}

\* the records a handler's result holds
RecsOf(s) == {s.out[i] : i \in DOMAIN s.out}

QueuesEmpty ==
  \A c \in ConnIds : conns[c].toHost = << >> /\ conns[c].toGuest = << >>

BothFlags(s, p) == s.lobby[p].isReady /\ s.lobby[p].remoteReady

\* the result s of a handler of p: START_GAME was handed to the channel and the
\* game-start callback has run
StartedBy(s, p) ==
  /\ \E r \in RecsOf(s) :
       r.kind = "send" /\ r.from = p /\ r.type = "START_GAME" /\ r.sent
  /\ ~s.orch[p].inLobby /\ s.orch[p].gameManager.alive

\* C1: in a clean session (no cancel, no fault), once both users have pressed
\* ready on an open channel and every message has been delivered, both
\* orchestrators have left lobby mode.
C1_BothReadyBothLeaveLobby ==
  ((\A p \in Peers : lobby[p].isReady /\ isConnected(St, p)) /\ QueuesEmpty)
    => \A p \in Peers : ~orch[p].inLobby

\* C2: START_GAME goes out only from the host's ready check with both flags
\* true, together with the game-start callback; and whenever the host's ready
\* key press or a PLAYER_READY it receives leaves both flags true, START_GAME
\* is sent and the callback fires in that step.
C2_StartGameExactlyWhenBothReady ==
  \A p \in Peers :
    /\ \A r \in OutRecs :
         (r.kind = "send" /\ r.from = p /\ r.type = "START_GAME") =>
            r.isHost /\ BothFlags(St, p) /\ ~orch[p].inLobby
    /\ (net[p].isHost /\ isConnected(St, p) /\ ~lobby[p].isReady) =>
         LET k == lobbyReadyKey(St, p, "r")
         IN /\ k.lobby[p].isReady
            /\ BothFlags(k, p) <=> StartedBy(k, p)
    /\ (net[p].isHost /\ ChannelOpen(St, p)) =>
         LET m == lobbyOnMessage(St, p, PlayerReadyMsg("Player 2"))
         IN /\ m.lobby[p].remoteReady
            /\ BothFlags(m, p) <=> StartedBy(m, p)

\* the host has just sent START_GAME with both flags true and left the lobby
C2_Witness ==
  \E p \in Peers :
    /\ net[p].isHost /\ BothFlags(St, p) /\ ~orch[p].inLobby
    /\ \E r \in OutRecs :
         r.kind = "send" /\ r.from = p /\ r.type = "START_GAME" /\ r.sent

\* C3: a guest's ready key press and a PLAYER_READY it receives never fire its
\* game-start callback, whatever its flags; a guest leaves the lobby only in a
\* step that delivers START_GAME to it.
C3_GuestStartsOnlyOnStartGame ==
  /\ [](\A p \in Peers : ~net[p].isHost =>
         LET k == lobbyReadyKey(St, p, "r")
             m == lobbyOnMessage(St, p, PlayerReadyMsg("Player 1"))
         IN /\ k.orch = orch /\ m.orch = orch
            /\ \A r \in RecsOf(k) \cup RecsOf(m) : r.type # "START_GAME")
  /\ [][\A p \in Peers :
          (~net[p].isHost /\ orch[p].inLobby /\ ~orch'[p].inLobby) =>
             \E i \in DOMAIN out' :
               /\ out'[i].kind = "data" /\ out'[i].from = p
               /\ out'[i].type = "START_GAME" /\ out'[i].sent]_vars

\* a connected guest with both of its flags true is still in the lobby
C3_Witness ==
  \E p \in Peers :
    /\ ~net[p].isHost /\ isConnected(St, p)
    /\ BothFlags(St, p) /\ orch[p].inLobby

\* C4: a START_GAME handed to the lobby of a peer in the host role changes
\* nothing of that peer's orchestrator: the host stays in the lobby.
C4_HostIgnoresInboundStartGame ==
  \A p \in Peers :
    (net[p].isHost /\ ChannelOpen(St, p) /\ orch[p].inLobby) =>
       lobbyOnMessage(St, p, PlainMsg("START_GAME")).orch[p] = orch[p]

\* C5: a validated STATE_UPDATE handed to the data handler leaves the
\* simulation of an orchestrator whose role is host untouched; a guest with a
\* simulation takes the snapshot's values over in that same call; without a
\* simulation nothing is applied.
C5_OnlyGuestAppliesStateUpdate ==
  \A p \in Peers :
    LET gm == orch[p].gameManager
        after == onData(St, p, ScenePayload).orch[p].gameManager
    IN /\ orch[p].isHost => after = gm
       /\ ~gm.alive => after = gm
       /\ (~orch[p].isHost /\ gm.alive) =>
            /\ after.players[1].x = 100 /\ after.players[1].y = 200
            /\ after.players[1].score = 5 /\ after.players[1].lives = 2
            /\ Len(after.bubbleArray) = 1 /\ after.bubbleArray[1].radius = 3
            /\ \E i \in 1..2 : after.players[i].arrow.isActive
            /\ after.score = 5 /\ after.timeRemaining = 12000
            /\ after.currentLevel = ScenePayload.data.state.level

\* a host with a running simulation has just been handed a valid STATE_UPDATE
C5_Witness ==
  \E r \in OutRecs :
    /\ r.kind = "data" /\ r.type = "STATE_UPDATE" /\ r.sent
    /\ orch[r.from].isHost /\ orch[r.from].gameManager.alive

\* C6: every STATE_UPDATE handed to the channel is sent by a peer whose
\* NetworkManager is in the host role at that moment.
C6_StateUpdateOnlyFromHostRole ==
  \A r \in OutRecs :
    (r.kind = "send" /\ r.type = "STATE_UPDATE" /\ r.sent) => r.isHost

\* C8: a payload that validateMessage does not accept changes nothing of the
\* receiving peer: not the remote input, the ready flags or the simulation, nor
\* the NetworkManager or the channel; and its step sends nothing.
C8_InvalidPayloadReachesNoHandler ==
  /\ \A p \in Peers, raw \in ForeignPayloads :
       validateMessage(raw) # "accept" =>
         LET s1 == onData(St, p, raw)
         IN /\ s1.net = net /\ s1.lobby = lobby /\ s1.orch = orch
            /\ s1.conns = conns
  /\ \A r \in OutRecs : (r.kind = "data" /\ ~r.sent) => Len(out) = 1

\* a host in its game has just been handed the INPUT whose left is "yes"
C8_Witness ==
  \E r \in OutRecs :
    /\ r.kind = "data" /\ r.type = "INPUT" /\ ~r.sent
    /\ orch[r.from].isHost /\ orch[r.from].gameManager.alive

\* C9: send() hands nothing to the channel unless the status is connected and
\* the channel is open.
C9_SendOnlyWhenConnectedAndOpen ==
  \A p \in Peers :
    ~(net[p].status = "connected" /\ ChannelOpen(St, p)) =>
       Send(St, p, PlainMsg("SYNC")).conns = conns

\* C10: send() called while the status is disconnected, or without an open
\* channel, transmits nothing and leaves the NetworkManager as it was.
C10_SendWhileDisconnectedDrops ==
  \A p \in Peers :
    (net[p].status = "disconnected" \/ ~ChannelOpen(St, p)) =>
       LET s1 == Send(St, p, PlainMsg("SYNC"))
       IN s1.conns = conns /\ s1.net = net

\* the step was a call of disconnect() by p: it alone leaves the peer null
DisconnectedBy(p) == net[p].peer # "null" /\ net'[p].peer = "null"

\* the changes of status the state machine of C11 has
StatusSteps ==
  { << "disconnected", "connecting" >>, << "connecting", "connected" >>,
    << "connected", "disconnected" >>, << "connecting", "error" >>,
    << "connected", "error" >> }

\* C11: every change of a manager's status is disconnected->connecting,
\* connecting->connected, connected->disconnected, connecting->error or
\* connected->error, or it is a call of disconnect() ending in disconnected.
C11_StatusFollowsStateMachine ==
  [][\A p \in Peers :
       net'[p].status # net[p].status =>
         \/ << net[p].status, net'[p].status >> \in StatusSteps
         \/ DisconnectedBy(p) /\ net'[p].status = "disconnected"]_vars

\* C12: a status that is disconnected becomes connecting only by createRoom()
\* or joinRoom() (a new Peer object), and never becomes connected directly.
C12_NoReconnectWithoutCreateOrJoin ==
  [][\A p \in Peers :
       net[p].status = "disconnected" =>
         /\ net'[p].status # "connected"
         /\ net'[p].status = "connecting" =>
              net[p].peer = "null" /\ net'[p].peer = "new"]_vars

\* the characters C13 allows in a room code
AlphaNum ==
  { "A", "B", "C", "D", "E", "F", "G", "H", "I", "J", "K", "L", "M", "N", "O",
    "P", "Q", "R", "S", "T", "U", "V", "W", "X", "Y", "Z",
    "0", "1", "2", "3", "4", "5", "6", "7", "8", "9" }

\* the random draws C13 is checked over: the first, an inner and the last index
Draws == [1..CodeLen -> {0, 2, 35}]

IsRoomCode(code) == Len(code) = 6 /\ \A i \in DOMAIN code : code[i] \in AlphaNum

\* C13: createRoom() leaves the role host, the status connecting, a room code
\* of exactly 6 characters from A-Z and 0-9, and a new peer constructed under
\* exactly that code; a host's room code and peer id stay so while its peer
\* lives.
C13_CreateRoomPostcondition ==
  \A p \in Peers :
    /\ \A draw \in Draws :
         LET r == createRoom(St, p, generateRoomCode(draw)).net[p]
         IN /\ r.isHost /\ r.status = "connecting"
            /\ IsRoomCode(r.roomCode)
            /\ r.peer = "new" /\ r.peerId = r.roomCode
    /\ (net[p].isHost /\ net[p].peer # "null") =>
         IsRoomCode(net[p].roomCode) /\ net[p].peerId = net[p].roomCode

\* a peer has just called createRoom()
C13_Witness ==
  \E p \in Peers :
    /\ net[p].isHost /\ net[p].status = "connecting" /\ net[p].peer = "new"
    /\ IsRoomCode(net[p].roomCode) /\ lobby[p].mode = "create"

\* the calls of disconnect() by p that a handler's result s records
DisconnectCalls(s, p) ==
  Cardinality({i \in DOMAIN s.out :
                 s.out[i].kind = "disconnect" /\ s.out[i].from = p})

\* C14: after disconnect(), from any state, the status is disconnected, the
\* role is cleared, the room code is empty, connection and peer are null and
\* isConnected() is false; a second disconnect() changes nothing further.
C14_DisconnectPostcondition ==
  \A p \in Peers :
    LET d == disconnect(St, p)
        e == disconnect(d, p)
    IN /\ d.net[p].status = "disconnected" /\ ~d.net[p].isHost
       /\ d.net[p].roomCode = << >>
       /\ d.net[p].connection = 0 /\ d.net[p].peer = "null"
       /\ ~isConnected(d, p)
       /\ e.net = d.net /\ e.conns = d.conns /\ e.lobby = d.lobby /\ e.orch = d.orch

\* a connected host has just called disconnect()
C14_Witness ==
  \E r \in OutRecs :
    /\ r.kind = "disconnect" /\ r.status = "connected" /\ r.open /\ r.isHost
    /\ net[r.from].status = "disconnected" /\ net[r.from].peer = "null"

\* the keydown event of Escape at p: the lobby's listener, then the
\* orchestrator's (variant "predict"), then the game's
EscapeEvent(p) ==
  LET s1 == lobbyKeyDown(St, p, "Escape", << >>)
      s2 == IF variant = "predict" THEN orchKey(s1, p, "Escape", << >>, TRUE) ELSE s1
  IN IF orch[p].gameManager.alive THEN gameKey(s2, p, "Escape", TRUE) ELSE s2

\* C15: Escape outside the menu calls disconnect() exactly once and leaves the
\* lobby in menu mode with an empty code buffer, both ready flags false and the
\* manager's room code empty; Escape in the menu changes nothing and calls no
\* disconnect().
C15_EscapeCancelsOnce ==
  \A p \in Peers :
    LET e == EscapeEvent(p)
    IN IF lobby[p].mode # "menu"
       THEN /\ DisconnectCalls(e, p) = 1
            /\ e.lobby[p].mode = "menu" /\ e.lobby[p].roomCodeInput = << >>
            /\ ~e.lobby[p].isReady /\ ~e.lobby[p].remoteReady
            /\ e.net[p].roomCode = << >>
       ELSE /\ DisconnectCalls(e, p) = 0
            /\ e.net = net /\ e.lobby = lobby /\ e.orch = orch /\ e.conns = conns

\* Escape was just pressed by a peer that was connected: one disconnect() in
\* the step, the lobby is back in the menu
C15_Witness ==
  \E p \in Peers :
    /\ \E r \in OutRecs : r.kind = "disconnect" /\ r.from = p /\ r.status = "connected"
    /\ lobby[p] = LobbyInit /\ net[p].roomCode = << >>
    /\ \E q \in Peers \ {p} : lobby[q].isReady

\* C16: when a connected peer in the lobby loses its channel from outside (the
\* status becomes disconnected while its peer object still exists, so not by
\* its own disconnect()), its lobby is back in menu mode with both ready flags
\* cleared.
C16_LostConnectionResetsLobby ==
  [][\A p \in Peers :
       (/\ isConnected(St, p) /\ orch[p].inLobby
        /\ net'[p].status = "disconnected" /\ net'[p].peer # "null")
         => lobby'[p].mode = "menu" /\ ~lobby'[p].isReady /\ ~lobby'[p].remoteReady]_vars

\* what C17 and C18 observe of a seat
SeatView(player) ==
  [x |-> player.x, y |-> player.y, score |-> player.score, lives |-> player.lives,
   arrowActive |-> player.arrow.isActive]

\* C17: applying the snapshot of a simulation back onto that simulation leaves
\* each seat's position, score, lives and projectile activity and the bubble
\* list as they were, and applying it a second time changes nothing more.
C17_SerializeApplyRoundTrip ==
  \A p \in Peers :
    LET gm == orch[p].gameManager
        snap == serializeGameState(gm)
        once == applyGameState(gm, snap)
    IN /\ \A i \in 1..2 : SeatView(once.players[i]) = SeatView(gm.players[i])
       /\ once.bubbleArray = gm.bubbleArray
       /\ applyGameState(once, snap) = once

C19_SnapshotAppliedWhollyOrNotAtAll ==
  [][(verdict = "none" /\ verdict' = "accept") =>
       \A p \in Peers :
         LET gm == orch[p].gameManager
         IN \/ orch'[p].gameManager = gm
            \/ /\ payload.data.state.present
               /\ orch'[p].gameManager = applyGameState(gm, payload.data.state)]_vars

\* the guests with which host p has a channel that is open at both ends
GuestsOf(p) ==
  { conns[c].g : c \in { d \in ConnIds : /\ conns[d].h = p
                                         /\ conns[d].hs = "open"
                                         /\ conns[d].gs = "open" } }

\* C20: a host is bound to at most one guest: it never has an open channel
\* with two guests, and the connection it has bound and holds open is never
\* replaced by a further inbound connection.
C20_AtMostOneGuestPerHost ==
  \A p \in Peers :
    /\ Cardinality(GuestsOf(p)) <= 1
    /\ \A c \in ConnIds :
         (conns[c].h = p /\ conns[c].hs = "open" /\ conns[c].gs = "open")
            => net[p].connection = c

(***************************************************************************)
(* Sessions that the page ends with MultiplayerGameManager.disconnect()    *)
(***************************************************************************)
NextLeave ==
  \/ \E p \in Peers, key \in {"c", "j", "r", "Enter"} : KeyDown(p, key)
  \/ \E p \in Peers : SyncFrame(p)
  \/ ClockTick
  \/ \E p \in Peers : OrchDisconnect(p)
  \/ Transport

SpecLeave == Init /\ [][NextLeave]_vars

\* the STATE_UPDATE broadcasts p made in the step that led to s
Broadcasts(s, p) ==
  {i \in DOMAIN s.out : /\ s.out[i].kind = "send" /\ s.out[i].from = p
                        /\ s.out[i].type = "STATE_UPDATE"}

C22_ArrowsMatchedBySeat ==
  [][( /\ verdict = "none" /\ verdict' = "accept"
       /\ payload = StateUpdateMsg(serializeGameState(orch["p1"].gameManager))
       /\ orch'["p2"].gameManager =
            applyGameState(orch["p2"].gameManager, payload.data.state) )
      => \A i \in 1..2 :
           LET h == orch["p1"].gameManager.players[i].arrow
               g == orch'["p2"].gameManager.players[i].arrow
           IN /\ g.isActive = h.isActive
              /\ h.isActive => (g.x = h.x /\ g.y = h.y)
    ]_vars

\* the three aggregate values of a simulation, as the simulation keeps them
Aggregates(gm) == << gm.score, gm.timeRemaining, gm.level >>

\* C23: after the guest has applied a snapshot, its simulation's score, time
\* remaining and level are the snapshot's, and serializing the simulation
\* again returns those three values.
C23_AggregatesCopiedVerbatim ==
  [][( /\ verdict = "none" /\ verdict' = "accept"
       /\ payload.data.state.present
       /\ orch'["p2"].gameManager =
            applyGameState(orch["p2"].gameManager, payload.data.state) )
      => LET snap == payload.data.state
             gm == orch'["p2"].gameManager
             again == serializeGameState(gm)
         IN /\ Aggregates(gm) = << snap.score, snap.timeRemaining, snap.level >>
            /\ << again.score, again.timeRemaining, again.level >> =
                 << snap.score, snap.timeRemaining, snap.level >>
    ]_vars

\* C24: an error event of the peer or of the connection sets the status to
\* error and leaves peer, connection, role and room code as they were, and a
\* status of error changes only in a step in which the manager's disconnect()
\* is called: no later transport event moves it.
C24_ErrorStaysUntilDisconnect ==
  [][\A p \in Peers :
       /\ onError(St, p).net[p] = [net[p] EXCEPT !.status = "error"]
       /\ onError(St, p).conns = conns
       /\ (net[p].status = "error" /\ net'[p].status # "error") =>
             \E i \in DOMAIN out' : out'[i].kind = "disconnect" /\ out'[i].from = p
    ]_vars

\* codes as a caller may pass them to joinRoom: lower, upper and mixed case
JoinCodes ==
  { << "c", "c", "c", "c", "c", "c" >>, << "C", "C", "C", "C", "C", "C" >>,
    << "j", "R", "c", "2", "Z", "r" >> }

\* is `code` an upper-case alphanumeric string equal to upper-casing `typed`
IsUpperOf(code, typed) ==
  /\ Len(code) = Len(typed)
  /\ \A i \in DOMAIN typed :
       /\ code[i] \in AlphaNum
       /\ code[i] = typed[i] \/ << typed[i], code[i] >> \in
                                   {<< "c", "C" >>, << "j", "J" >>, << "r", "R" >>}

\* C25: the status becomes connected only in a step in which the manager's
\* bound data channel goes from pending to open: on a host that channel is an
\* inbound connection bound to it, on a guest one that its own open peer made
\* to its room code; and joinRoom(code) returns with the role guest, the room
\* code upper-cased and the status connecting.
C25_ConnectedOnlyWhenBoundChannelOpens ==
  [][\A p \in Peers :
       /\ (net[p].status # "connected" /\ net'[p].status = "connected") =>
             LET c == net'[p].connection
             IN /\ c > 0 /\ c = net[p].connection
                /\ SideOf(St, c, p) = "pending"
                /\ SideOf([conns |-> conns'], c, p) = "open"
                /\ net[p].isHost => conns[c].h = p
                /\ ~net[p].isHost =>
                     /\ net[p].peer = "open" /\ conns[c].g = p
                     /\ conns[c].target = net[p].roomCode
       /\ \A code \in JoinCodes :
             LET r == joinRoom(St, p, code).net[p]
             IN ~r.isHost /\ r.status = "connecting" /\ IsUpperOf(r.roomCode, code)
    ]_vars

\* the payloads of the model that validateMessage accepts, and the others
ValidPayloads == {m \in ForeignPayloads : validateMessage(m) = "accept"}

InvalidPayloads ==
  (ForeignPayloads \cup {RawPrim(JNum(3)), RawPrim(JUndef)}) \ ValidPayloads

\* C26: a payload that fails validation leaves every field of the receiving
\* NetworkManager (status, role, room code, connection, ping timer) and the
\* connections as they were, and a valid message handed to the data handler
\* after it is dispatched exactly as it would have been without it.
C26_InvalidPayloadLeavesManagerAlone ==
  \A p \in Peers : \A raw \in InvalidPayloads :
    LET s1 == onData(St, p, raw)
    IN /\ s1.net = net
       /\ s1.conns = conns
       /\ s1.net[p].status # "error" \/ net[p].status = "error"
       /\ \A m \in ValidPayloads :
            LET a == onData([s1 EXCEPT !.out = << >>], p, m)
                b == onData(St, p, m)
            IN /\ a = b
               /\ \E r \in RecsOf(a) : r.kind = "data" /\ r.sent

\* a connected manager whose ping timer runs has just received a payload that
\* failed validation
C26_Witness ==
  \E r \in OutRecs :
    /\ r.kind = "data" /\ ~r.sent /\ r.status = "connected" /\ r.open
    /\ net[r.from].status = "connected" /\ net[r.from].pingIntervalId
    /\ isConnected(St, r.from)

\* C27: when the registered handler throws while processing an accepted
\* message (a STATE_UPDATE without a snapshot's lists, applied by a guest in
\* game), the data handler returns with the NetworkManager and the connections
\* unchanged, and the next inbound snapshot is applied as usual.
C27_HandlerExceptionIsContained ==
  \A p \in Peers :
    Throws(St, p, EmptyStatePayload) =>
      LET s1 == onData(St, p, EmptyStatePayload)
          s2 == onData([s1 EXCEPT !.out = << >>], p, ScenePayload)
      IN /\ s1.net = net /\ s1.conns = conns /\ s1.lobby = lobby
         /\ s1.net[p].status = net[p].status
         /\ s1.orch[p].inLobby = orch[p].inLobby
         /\ s2.net = net /\ s2.conns = conns
         /\ \E r \in RecsOf(s2) : r.kind = "data" /\ r.sent
         /\ s2.orch[p].gameManager =
              applyGameState(s1.orch[p].gameManager, ScenePayload.data.state)

\* a connected guest in game has just been handed an accepted STATE_UPDATE
\* that no apply completed for (currentLevel, which every completed apply
\* sets, is not set)
C27_Witness ==
  \E r \in OutRecs :
    /\ r.kind = "data" /\ r.type = "STATE_UPDATE" /\ r.sent
    /\ r.status = "connected" /\ net[r.from].status = "connected"
    /\ ~orch[r.from].isHost /\ orch[r.from].gameManager.alive
    /\ orch[r.from].gameManager.currentLevel = 0

\* C28: in the state a call of MultiplayerGameManager.disconnect() leaves, the
\* orchestrator is in lobby mode without a simulation, the NetworkManager is
\* disconnected with role and room code cleared, and the lobby is at its menu
\* with both ready flags false.
C28_DisconnectResetsSession ==
  [][\A p \in Peers :
       ( /\ \E i \in DOMAIN out' : out'[i].kind = "disconnect" /\ out'[i].from = p
         /\ orch' = orchDisconnect(St, p).orch
         /\ net' = orchDisconnect(St, p).net
         /\ lobby' = orchDisconnect(St, p).lobby )
       => /\ orch'[p].inLobby /\ orch'[p].gameManager = NoGame
          /\ net'[p].status = "disconnected" /\ ~net'[p].isHost
          /\ net'[p].roomCode = << >> /\ net'[p].peer = "null"
          /\ net'[p].connection = 0
          /\ lobby'[p].mode = "menu"
          /\ ~lobby'[p].isReady /\ ~lobby'[p].remoteReady
    ]_vars

\* C29: a validated PLAYER_READY that arrives while the orchestrator is in
\* lobby mode reaches the lobby's handler, which records the remote-ready flag;
\* a validated START_GAME that arrives at a guest in lobby mode starts its
\* game; and a message that arrives after the start reaches the in-game
\* handler only and leaves the lobby's fields alone.
C29_HandlerFollowsMode ==
  [][\A i \in DOMAIN out' :
       LET r == out'[i]
           p == r.from
       IN (r.kind = "data" /\ r.sent) =>
            /\ (orch[p].inLobby /\ r.type = "PLAYER_READY") => lobby'[p].remoteReady
            /\ (orch[p].inLobby /\ r.type = "START_GAME" /\ ~net[p].isHost) =>
                  ~orch'[p].inLobby
            /\ ~orch[p].inLobby => lobby'[p] = lobby[p]
    ]_vars

(***************************************************************************)
(* The join screen: one user types at will                                 *)
(***************************************************************************)
\* e.key values of the typing user: letters that are also menu keys, a digit,
\* a character outside the code alphabet, and the editing keys
TypingKeys == {"j", "c", "2", "-", "Enter", "Backspace", "Escape"}

\* a keydown event of the typing user, whatever the buffer holds: the lobby's
\* listener, then the orchestrator's (variant "predict")
Type(p, key) ==
  /\ \E code \in RoomCodes :
       LET s1 == lobbyKeyDown(St, p, key, code)
           s2 == IF variant = "predict" THEN orchKey(s1, p, key, code, TRUE) ELSE s1
       IN Apply(s2)
  /\ UNCHANGED faults

NextTyping == \E key \in TypingKeys : Type("p2", key)

SpecTyping == Init /\ [][NextTyping]_vars

\* C30: the room-code buffer never holds more than 6 characters and only
\* upper-case letters and digits; entering join mode leaves it empty;
\* joinRoom is called only from a buffer of exactly 6 characters, with that
\* buffer, and leaves the lobby waiting; Enter on a shorter buffer changes
\* nothing.
C30_RoomCodeBuffer ==
  [][\A p \in Peers :
       /\ Len(lobby'[p].roomCodeInput) <= 6
       /\ \A i \in DOMAIN lobby'[p].roomCodeInput :
            lobby'[p].roomCodeInput[i] \in AlphaNum
       /\ (lobby[p].mode # "join" /\ lobby'[p].mode = "join") =>
            lobby'[p].roomCodeInput = << >>
       /\ (net[p].peer = "null" /\ net'[p].peer = "new" /\ ~net'[p].isHost) =>
            /\ lobby[p].mode = "join"
            /\ Len(lobby[p].roomCodeInput) = 6
            /\ net'[p].roomCode = lobby[p].roomCodeInput
            /\ lobby'[p].mode = "create"
       /\ (lobby[p].mode = "join" /\ Len(lobby[p].roomCodeInput) < 6) =>
            /\ lobbyKeyDown(St, p, "Enter", << >>) = St
            /\ orchKey(St, p, "Enter", << >>, TRUE) = St
    ]_vars

\* joinRoom has been called with a buffer of 6 characters that holds a letter
\* typed in lower case and a digit, and the lobby is waiting
C30_Witness ==
  \E p \in Peers :
    /\ lobby[p].mode = "create" /\ ~net[p].isHost /\ net[p].status = "connecting"
    /\ Len(lobby[p].roomCodeInput) = 6
    /\ net[p].roomCode = lobby[p].roomCodeInput
    /\ lobby[p].roomCodeInput[1] = "J" /\ lobby[p].roomCodeInput[6] = "2"

\* the seats of a simulation other than seat i (0-based)
OtherSeats(gm, i) == [j \in (1..Len(gm.players)) \ {i + 1} |-> gm.players[j]]

\* C31: the orchestrator's role changes only in a step that starts a game,
\* where it is taken from the NetworkManager's role, and stays that role for
\* the session (whenever a game runs on an open connection the two roles
\* agree); a host's key events touch seat 0 only and a remote input seat 1
\* only, a guest's key events never touch seat 0, and every INPUT message is
\* sent by a guest.
C31_RoleFixedSeatsByRole ==
  [][\A p \in Peers :
       /\ orch'[p].isHost # orch[p].isHost =>
            /\ orch'[p].gameManager.alive /\ ~orch'[p].inLobby
            /\ orch'[p].isHost = net[p].isHost
       /\ (orch'[p].gameManager.alive /\ isConnected([net |-> net', conns |-> conns'], p)) =>
            orch'[p].isHost = net'[p].isHost
       /\ \A i \in DOMAIN out' :
            ( /\ out'[i].kind = "send" /\ out'[i].type = "INPUT"
              /\ out'[i].from = p /\ out'[i].sent ) =>
               ~orch[p].isHost /\ ~out'[i].isHost
       /\ orch[p].gameManager.alive =>
            \A down \in BOOLEAN :
              LET k == gameKey(St, p, "Left", down).orch[p].gameManager
                  a == applyGuestInput(St, p, [left |-> TRUE, right |-> FALSE,
                                               shoot |-> TRUE]).orch[p].gameManager
              IN /\ orch[p].isHost =>
                      OtherSeats(k, 0) = OtherSeats(orch[p].gameManager, 0)
                 /\ ~orch[p].isHost =>
                      OtherSeats(k, 1) = OtherSeats(orch[p].gameManager, 1)
                 /\ OtherSeats(a, 1) = OtherSeats(orch[p].gameManager, 1)
    ]_vars

\* the inputs a guest can send
InputStates == [left : BOOLEAN, right : BOOLEAN, shoot : BOOLEAN]

\* the movement an input asks for
MovementOf(input) ==
  IF input.left THEN "LEFT" ELSE IF input.right THEN "RIGHT" ELSE "STATIONARY"

\* C32: when a host in game is handed a valid INPUT, the next application
\* gives seat 1 the movement of that input alone (left: LEFT, else right:
\* RIGHT, else STATIONARY), whatever the seat's movement was, and seat 0 is
\* what it would have been without the message.
C32_RemoteInputSetsGuestSeat ==
  \A p \in Peers : \A input \in InputStates :
    (orch[p].isHost /\ ~orch[p].inLobby /\ orch[p].gameManager.alive
       /\ isConnected(St, p)) =>
      LET s1 == onData(St, p, InputMsg(input))
          with == IF variant = "predict" THEN updateMultiplayer(s1, p) ELSE s1
          without == IF variant = "predict" THEN updateMultiplayer(St, p) ELSE St
      IN /\ with.orch[p].gameManager.players[2].movement = MovementOf(input)
         /\ with.orch[p].gameManager.players[1] =
              without.orch[p].gameManager.players[1]

\* the timestamps of the STATE_UPDATE messages in a queue, in order
RECURSIVE UpdateStamps(_)
UpdateStamps(q) ==
  IF q = << >> THEN << >>
  ELSE (IF Head(q).type.s = "STATE_UPDATE" THEN << Head(q).timestamp.n >> ELSE << >>)
       \o UpdateStamps(Tail(q))

\* one tick of the orchestrator of p
Tick(s, p) == IF variant = "predict" THEN updateMultiplayer(s, p) ELSE syncLoop(s, p)

\* C33: a step sends at most one STATE_UPDATE per peer, and only from an
\* orchestrator that is host with a simulation, over a connected manager, at
\* least 50 ms after its previous one, so consecutive STATE_UPDATE timestamps
\* in flight differ by at least 50; and the tick of a connected host in game
\* whose last send is 50 ms or more ago sends one.
C33_BroadcastEvery50ms ==
  [][\A p \in Peers :
       /\ Cardinality(Broadcasts([out |-> out'], p)) <= 1
       /\ \A i \in Broadcasts([out |-> out'], p) :
            /\ orch'[p].isHost /\ orch'[p].gameManager.alive
            /\ out'[i].status = "connected" /\ out'[i].open /\ out'[i].sent
            /\ now - orch[p].lastSyncTime >= 50
            /\ orch'[p].lastSyncTime = now
       /\ \A c \in ConnIds : \A q \in {conns'[c].toGuest, conns'[c].toHost} :
            \A i \in 1..(Len(UpdateStamps(q)) - 1) :
              UpdateStamps(q)[i + 1] - UpdateStamps(q)[i] >= 50
       /\ ( /\ orch[p].isHost /\ ~orch[p].inLobby /\ orch[p].gameManager.alive
            /\ isConnected(St, p) /\ now - orch[p].lastSyncTime >= 50 ) =>
            /\ Broadcasts(Tick(St, p), p) # {}
            /\ Tick(St, p).orch[p].lastSyncTime = now
    ]_vars

\* a host has just sent a STATE_UPDATE 50 ms after the one it sent at the
\* start of the game, the clock having been read in between
C33_Witness ==
  \E r \in OutRecs :
    /\ r.kind = "send" /\ r.type = "STATE_UPDATE" /\ r.sent
    /\ now - StartTime >= syncInterval
    /\ orch[r.from].lastSyncTime = now

(***************************************************************************)
(* Sessions with their latency probes: rooms are left with Escape, a       *)
(* further guest connects, the ping timers fire                            *)
(***************************************************************************)
NextPing ==
  \/ \E p \in Peers, key \in {"c", "j", "Enter", "Escape"} : KeyDown(p, key)
  \/ Transport
  \/ \E c \in ConnIds : Remote(c)
  \/ \E p \in Peers : PingTimer(p)

SpecPing == Init /\ [][NextPing]_vars

\* C34: a SYNC is sent only over an open channel; in the state a call of
\* disconnect() leaves, none of the manager's ping timers is running and no
\* timer id is kept; and a manager without a peer has no ping timer running.
C34_ProbeTimerStoppedByDisconnect ==
  [][\A p \in Peers :
       /\ \A i \in DOMAIN out' :
            (out'[i].kind = "send" /\ out'[i].type = "SYNC" /\ out'[i].from = p) =>
               out'[i].open /\ out'[i].sent
       /\ (\E i \in DOMAIN out' : out'[i].kind = "disconnect" /\ out'[i].from = p) =>
            net'[p].timers = 0 /\ ~net'[p].pingIntervalId
       /\ net'[p].peer = "null" => net'[p].timers = 0
    ]_vars

(***************************************************************************)
(* GameStateSync.createDelta                                               *)
(***************************************************************************)
\* createDelta with the comparison of the aggregate score left out
createDeltaNoScore(oldState, newState) ==
  LET stringify(pl) == << pl.x, pl.y, pl.score, pl.lives >>
      keys == {"bubbles", "arrows"}
              \cup (IF stringify(oldState.player1) # stringify(newState.player1)
                    THEN {"player1"} ELSE {})
              \cup (IF stringify(oldState.player2) # stringify(newState.player2)
                    THEN {"player2"} ELSE {})
              \cup (IF oldState.timeRemaining # newState.timeRemaining
                    THEN {"timeRemaining"} ELSE {})
              \cup (IF oldState.level # newState.level THEN {"level"} ELSE {})
  IN [k \in keys |-> newState[k]]

\* createDelta(oldState, newState): the object whose own properties are the
\* keys assigned; JSON.stringify of a PlayerState is the text of its four
\* numbers in the order serializePlayer wrote them
createDelta(oldState, newState) ==
  LET stringify(pl) == << pl.x, pl.y, pl.score, pl.lives >>
      keys == {"bubbles", "arrows"}
              \cup (IF stringify(oldState.player1) # stringify(newState.player1)
                    THEN {"player1"} ELSE {})
              \cup (IF stringify(oldState.player2) # stringify(newState.player2)
                    THEN {"player2"} ELSE {})
              \cup (IF oldState.score # newState.score THEN {"score"} ELSE {})
              \cup (IF oldState.timeRemaining # newState.timeRemaining
                    THEN {"timeRemaining"} ELSE {})
              \cup (IF oldState.level # newState.level THEN {"level"} ELSE {})
  IN [k \in keys |-> newState[k]]

\* GameState objects an earlier tick produced: the snapshots of the modelled
\* simulations, at level 1 or 2
DeltaStates ==
  { [serializeGameState(h) EXCEPT !.level = l] :
      h \in { g \in Sims : g.players[1].arrow = NoArrow /\ g.players[1].lives = 3
                           /\ g.players[2].lives = 3 },
      l \in {1, 2} }

\* the simulation is serialized with p1's simulation in some state
InitDelta ==
  /\ variant = "render"
  /\ now = StartTime
  /\ net = [p \in Peers |-> NetInit]
  /\ lobby = [p \in Peers |-> LobbyInit]
  /\ \E h \in Sims :
       orch = [p \in Peers |->
                 IF p = "p1"
                 THEN [OrchInit EXCEPT !.inLobby = FALSE, !.isHost = TRUE,
                                       !.gameManager = h]
                 ELSE OrchInit]
  /\ conns = [c \in ConnIds |-> NoConn]
  /\ out = << >>
  /\ faults = 0
  /\ payload = RawPrim(JUndef)
  /\ verdict = "none"

\* a snapshot of an earlier tick is kept as oldState
KeepSnapshot(snap) ==
  /\ payload = RawPrim(JUndef)
  /\ payload' = StateUpdateMsg(snap)
  /\ UNCHANGED << variant, now, net, lobby, orch, conns, out, faults, verdict >>

\* createDelta(oldState, serializeGameState(gameManager)) replaces the kept
\* snapshot in the message
Delta ==
  /\ payload # RawPrim(JUndef) /\ verdict = "none"
  /\ payload' = StateUpdateMsg(createDelta(payload.data.state,
                                           serializeGameState(orch["p1"].gameManager)))
  /\ verdict' = "delta"
  /\ UNCHANGED << variant, now, net, lobby, orch, conns, out, faults >>

NextDelta ==
  \/ \E snap \in DeltaStates : KeepSnapshot(snap)
  \/ Delta

SpecDelta == InitDelta /\ [][NextDelta]_vars

\* the delta's properties written over oldState
Overlay(oldState, delta) ==
  [k \in DOMAIN oldState |-> IF k \in DOMAIN delta THEN delta[k] ELSE oldState[k]]

\* C35: the delta of the kept snapshot and the simulation's snapshot holds
\* player1 / player2 exactly when that record differs, always the new bubble
\* and arrow lists, score / timeRemaining / level exactly when changed;
\* overlaid on the old snapshot it gives the new one; the delta of a snapshot
\* with itself holds the two lists only.
C35_DeltaHoldsExactlyTheChanges ==
  [][verdict' = "delta" /\ verdict = "none" =>
       LET old == payload.data.state
           new == serializeGameState(orch["p1"].gameManager)
           d == payload'.data.state
       IN /\ \A k \in {"player1", "player2", "score", "timeRemaining", "level"} :
               (k \in DOMAIN d) <=> (old[k] # new[k])
          /\ {"bubbles", "arrows"} \subseteq DOMAIN d
          /\ \A k \in DOMAIN d : d[k] = new[k]
          /\ Overlay(old, d) = new
          /\ (old = new => DOMAIN d = {"bubbles", "arrows"})
    ]_vars

\* a delta that carries a player record and an aggregate but not everything
C35_Witness ==
  /\ verdict = "delta"
  /\ "player2" \in DOMAIN payload.data.state
  /\ "score" \in DOMAIN payload.data.state
  /\ "player1" \notin DOMAIN payload.data.state
  /\ "level" \notin DOMAIN payload.data.state

\* the records of PLAYER_READY messages p handed to send() in the last step
ReadySends(o, p) ==
  { i \in DOMAIN o : o[i].kind = "send" /\ o[i].from = p /\ o[i].type = "PLAYER_READY" }

Duplicate(c, side) ==
  /\ faults < MaxFaults
  /\ Owner(c, side) \in Peers
  /\ SideState(c, side) = "open"
  /\ LET q == IF side = "g" THEN conns[c].toGuest ELSE conns[c].toHost
     IN /\ q # << >>
        /\ Apply(onData(St, Owner(c, side), Head(q)))
  /\ faults' = faults + 1

NextDup ==
  \/ \E p \in Peers, key \in {"c", "j", "r", "Enter", "Escape"} : KeyDown(p, key)
  \/ Transport
  \/ \E c \in ConnIds, side \in {"g", "h"} : Duplicate(c, side)

SpecDup == Init /\ [][NextDup]_vars

\* the START_GAME messages p handed to send() in the result s of a handler
StartSends(s, p) ==
  { i \in DOMAIN s.out :
      s.out[i].kind = "send" /\ s.out[i].from = p /\ s.out[i].type = "START_GAME" }

StartIsForReadyGuest(s, p) ==
  (\E i \in StartSends(s, p) : s.out[i].sent /\ s.out[i].isHost) =>
     \A q \in Peers, c \in ConnIds :
       (s.net[p].connection = c /\ s.conns[c].g = q /\ s.net[q].connection = c) =>
          s.lobby[q].isReady

\* C38: when the host hands START_GAME to its channel, in a step or on its
\* ready key, a peer that is bound to the other end of the host's connection
\* has its ready flag set: it has sent PLAYER_READY over this connection (the
\* flag is set with the send and cleared only by the cancel that also drops
\* the connection).
C38_StartOnlyForReadyGuestOfThisConnection ==
  [][\A p \in Peers :
       /\ StartIsForReadyGuest([net |-> net', lobby |-> lobby', conns |-> conns',
                                out |-> out'], p)
       /\ \A code \in RoomCodes : StartIsForReadyGuest(lobbyKeyDown(St, p, "r", code), p)
    ]_vars

\* C39: where an orchestrator is in game mode, the lobby's keydown listener
\* does nothing on Escape, C, J, R, Enter, Backspace or a code character: it
\* calls no disconnect(), createRoom() or joinRoom(), so the NetworkManager and
\* the connections stay as they are, and so do the lobby's mode and flags.
C39_LobbyKeysInertInGame ==
  \A p \in Peers :
    ~orch[p].inLobby =>
      \A key \in LobbyKeys \cup {"2"}, code \in RoomCodes :
        LET t == lobbyKeyDown(St, p, key, code)
        IN /\ t.net = net /\ t.conns = conns
           /\ \A i \in DOMAIN t.out : t.out[i].kind # "disconnect"
           /\ t.lobby[p].mode = lobby[p].mode
           /\ t.lobby[p].isReady = lobby[p].isReady
           /\ t.lobby[p].remoteReady = lobby[p].remoteReady

\* the SYNC probes p took from its channel in the last step
SyncsReceived(o, p) ==
  { i \in DOMAIN o : o[i].kind = "data" /\ o[i].from = p /\ o[i].type = "SYNC"
                     /\ o[i].sent }

\* C40: getLatency() returns 0 after every step, and a step in which a peer
\* takes a SYNC probe from its channel sends nothing from that peer and
\* changes nothing of its NetworkManager, lobby or orchestrator.
C40_LatencyNeverMeasured ==
  [][\A p \in Peers :
       /\ net'[p].latency = 0
       /\ SyncsReceived(out', p) # {} =>
            /\ \A i \in DOMAIN out' : ~(out'[i].kind = "send" /\ out'[i].from = p)
            /\ net'[p] = net[p] /\ lobby'[p] = lobby[p] /\ orch'[p] = orch[p]
    ]_vars

\* a peer has just taken a probe the other peer's timer sent
C40_Witness ==
  \E p, q \in Peers :
    /\ p # q
    /\ SyncsReceived(out, p) # {}
    /\ net[q].lastPingTime = now
    /\ net[p].latency = 0

=============================================================================
